---- MODULE Spec2Model ----
(***************************************************************************)
(* tidploy: address/state resolution (src/src/next/state.rs), config       *)
(* traversal (src/src/next/config.rs) and argument resolution              *)
(* (src/src/next/resolve.rs).                                              *)
(*                                                                         *)
(* Paths are sequences of components.  A relative path (RelativePathBuf)   *)
(* is a sequence over names, "." and "..".  An absolute path (Utf8PathBuf) *)
(* is the sequence of its components below "/"; it may hold ".." because   *)
(* RelativePath::to_path joins textually.  The disk has no symbolic links  *)
(* and every directory named on a path exists, so the operating system     *)
(* resolves ".." by dropping the component before it.                      *)
(***************************************************************************)
EXTENDS Integers, Sequences, FiniteSets, TLC

VARIABLES
    fs,         \* the config files read so far: canonical directory -> Config
    addr_in,    \* the Address converge_address was called with
    pc,         \* position in converge_address
    state,      \* the local `state` of converge_address / converge_state
    i,          \* the pass counter `i` of converge_state (saturating)
    hops,       \* history: the addresses resolved, with what each converged to
    overflow,   \* history: more than MaxTrace addresses were resolved
    declared,   \* history: every address a merged config has declared
    input,      \* the inputs of the operation: the command line and the
                \* environment of a command, the files of a directory, a Git
                \* address and what the remote answers
    out,        \* what the operation returned
    store,      \* the Git cache below store_dir: the repo clone and the snapshots
    returned,   \* history: what the calls of get_dir_from_git returned
    running,    \* the invocations of get_dir_from_git in progress at once
    keyring,    \* the credential store: <<service, key>> -> password
    child       \* the child of run_entrypoint, its pipes, and the parent's loop

vars == <<fs, addr_in, pc, state, i, hops, overflow, declared, input, out, store, returned,
          running, keyring, child>>

----------------------------------------------------------------------------
(* Bounds of the model *)

\* fields set by the config files on the disk, all files together
MaxSettings == 3
\* addresses recorded in `hops` before the history saturates
MaxTrace == 3
\* value at which the debug counter `i` saturates
MaxIter == 2
\* settings made by the command line, the environment and the config files
\* of a command, all together
MaxSet == 3

----------------------------------------------------------------------------
(* Option<T>: None is the empty tuple, Some(x) the one-tuple of x *)

None == <<>>
Some(x) == <<x>>
IsSome(o) == o # <<>>
Unwrap(o) == o[1]
\* Option::or: a.or(b)
OrOpt(a, b) == IF IsSome(a) THEN a ELSE b
\* Option::unwrap_or / unwrap_or_default
UnwrapOr(o, d) == IF IsSome(o) THEN o[1] ELSE d

Range(s) == {s[k] : k \in DOMAIN s}

----------------------------------------------------------------------------
(* Paths *)

RECURSIVE NormalizeFrom(_, _)
NormalizeFrom(buf, rest) ==
    IF rest = <<>> THEN buf
    ELSE LET c == Head(rest)
             nxt == IF c = "." THEN buf
                    ELSE IF c = ".."
                         THEN IF buf = <<>> \/ buf[Len(buf)] = ".."
                              THEN Append(buf, "..")
                              ELSE SubSeq(buf, 1, Len(buf) - 1)
                         ELSE Append(buf, c)
         IN  NormalizeFrom(nxt, Tail(rest))

\* RelativePath::normalize: "." dropped, ".." cancels the name before it,
\* leading ".." kept
Normalize(p) == NormalizeFrom(<<>>, p)

\* WrapToPath::to_utf8_path: the components of rel pushed onto base.  A "."
\* is no component of the resulting Utf8PathBuf; ".." stays in the text.
to_utf8_path(rel, base) == base \o SelectSeq(rel, LAMBDA c : c # ".")

RECURSIVE CanonFrom(_, _)
CanonFrom(buf, rest) ==
    IF rest = <<>> THEN buf
    ELSE LET c == Head(rest)
             nxt == IF c = ".."
                    THEN IF buf = <<>> THEN buf
                         ELSE SubSeq(buf, 1, Len(buf) - 1)
                    ELSE Append(buf, c)
         IN  CanonFrom(nxt, Tail(rest))

\* the directory the operating system opens for an absolute path
Canon(abs) == CanonFrom(<<>>, abs)

\* get_component_paths: start joined with each prefix of the normalized
\* final path, shallowest first
get_component_paths(start_path, final_path) ==
    LET n == Normalize(final_path)
    IN  [k \in 1..Len(n) |-> to_utf8_path(SubSeq(n, 1, k), start_path)]

----------------------------------------------------------------------------
(* Config files *)

\* Config::default(): what load_dploy_config returns when no file exists
DefaultConfig == [ok |-> TRUE, state |-> None, argument |-> None]
\* a file that cannot be read or parsed: load_dploy_config returns Err
BadConfig == [ok |-> FALSE, state |-> None, argument |-> None]

\* load_dploy_config on a disk `disk`, which holds for a directory what the
\* load of its files returns; a directory without a file gives the default
\* config
load_dploy_config(disk, dir) ==
    IF Canon(dir) \in DOMAIN disk THEN disk[Canon(dir)] ELSE DefaultConfig

\* a faulty overwrite_option: the original wins when it is set
overwrite_option_keep(original, replacing) ==
    IF IsSome(original) THEN original ELSE replacing

\* overwrite_option
overwrite_option(original, replacing) ==
    IF IsSome(replacing) THEN replacing ELSE original

\* merge_option; `merged` stands for merge_fn(original, replacing) of the two
\* unwrapped values and is read only when both are set
merge_option(original, replacing, merged) ==
    IF IsSome(original)
    THEN IF IsSome(replacing)
         THEN Some(merged)
         ELSE original
    ELSE replacing

\* overwrite_state_config: each field of the deeper config wins when set
overwrite_state_config(base, replacing) ==
    [address    |-> OrOpt(replacing.address, base.address),
     state_root |-> OrOpt(replacing.state_root, base.state_root),
     state_path |-> OrOpt(replacing.state_path, base.state_path)]

\* a faulty merge_vars: the lists are appended, no key replaced
merge_vars_append(root_vars, overwrite_vars) == root_vars \o overwrite_vars

\* merge_vars: a map keyed by `key`, filled from root_vars and then from
\* overwrite_vars (a later entry replaces an earlier one of the same key),
\* listed again.  The order of the list is that of a HashMap's iteration and
\* no caller reads it; the model lists the keys by first occurrence.
merge_vars(root_vars, overwrite_vars) ==
    LET all == root_vars \o overwrite_vars
        first == {k \in DOMAIN all : \A j \in 1..(k - 1) : all[j].key # all[k].key}
        last(key) == CHOOSE k \in DOMAIN all :
                        /\ all[k].key = key
                        /\ \A j \in (k + 1)..Len(all) : all[j].key # key
        keys == SelectSeq([k \in DOMAIN all |-> IF k \in first THEN Some(all[k].key) ELSE None],
                          IsSome)
    IN  [k \in DOMAIN keys |->
            [key |-> Unwrap(keys[k]), env_name |-> all[last(Unwrap(keys[k]))].env_name]]

\* overwrite_scope
overwrite_scope(original, replacing) ==
    [name         |-> overwrite_option(original.name, replacing.name),
     sub          |-> overwrite_option(original.sub, replacing.sub),
     service      |-> overwrite_option(original.service, replacing.service),
     require_hash |-> overwrite_option(original.require_hash, replacing.require_hash)]

\* overwrite_arguments
overwrite_arguments(root_config, overwrite_config) ==
    [scope          |-> merge_option(root_config.scope, overwrite_config.scope,
                                     overwrite_scope(Unwrap(root_config.scope),
                                                     Unwrap(overwrite_config.scope))),
     executable     |-> overwrite_option(root_config.executable, overwrite_config.executable),
     execution_path |-> overwrite_option(root_config.execution_path,
                                         overwrite_config.execution_path),
     envs           |-> merge_option(root_config.envs, overwrite_config.envs,
                                     merge_vars(Unwrap(root_config.envs),
                                                Unwrap(overwrite_config.envs)))]

\* overwrite_arg_config
overwrite_arg_config(root_config, overwrite_config) ==
    merge_option(root_config, overwrite_config,
                 overwrite_arguments(Unwrap(root_config), Unwrap(overwrite_config)))

\* overwrite_config: the sections of two Configs merged, the deeper one winning
overwrite_config(root_config, over_config) ==
    [ok       |-> TRUE,
     argument |-> merge_option(root_config.argument, over_config.argument,
                               overwrite_arguments(Unwrap(root_config.argument),
                                                   Unwrap(over_config.argument))),
     state    |-> merge_option(root_config.state, over_config.state,
                               overwrite_state_config(Unwrap(root_config.state),
                                                      Unwrap(over_config.state)))]

\* the try_fold of traverse_configs: the configs of `paths` loaded in order
\* and merged into acc; the first load error ends the fold
RECURSIVE fold_configs(_, _, _)
fold_configs(disk, acc, paths) ==
    IF paths = <<>> THEN [ok |-> TRUE, val |-> acc]
    ELSE LET inner_config == load_dploy_config(disk, Head(paths))
         IN  IF ~inner_config.ok THEN [ok |-> FALSE, val |-> None]
             ELSE fold_configs(disk, overwrite_config(acc, inner_config), Tail(paths))

\* traverse_configs: the config at start_path, overwritten in turn by the
\* config of each component path.  Result: [ok, val]; an Err carries no
\* config (val is None).
traverse_configs(disk, start_path, final_path) ==
    LET root_config == load_dploy_config(disk, start_path)
    IN  IF ~root_config.ok THEN [ok |-> FALSE, val |-> None]
        ELSE fold_configs(disk, root_config, get_component_paths(start_path, final_path))

\* a faulty try_fold of traverse_arg_configs: a config that fails to load is
\* skipped
RECURSIVE fold_arg_configs_skip(_, _, _, _)
fold_arg_configs_skip(disk, acc, paths, visited) ==
    IF paths = <<>> THEN [ok |-> TRUE, val |-> acc, visited |-> visited]
    ELSE LET inner_config == load_dploy_config(disk, Head(paths))
             seen == Append(visited, Head(paths))
         IN  IF ~inner_config.ok THEN fold_arg_configs_skip(disk, acc, Tail(paths), seen)
             ELSE fold_arg_configs_skip(disk, overwrite_arg_config(acc, inner_config.argument),
                                        Tail(paths), seen)

\* the try_fold of traverse_arg_configs; `visited` lists the directories
\* whose config was loaded, in the order of the loads
RECURSIVE fold_arg_configs(_, _, _, _)
fold_arg_configs(disk, acc, paths, visited) ==
    IF paths = <<>> THEN [ok |-> TRUE, val |-> acc, visited |-> visited]
    ELSE LET inner_config == load_dploy_config(disk, Head(paths))
             seen == Append(visited, Head(paths))
         IN  IF ~inner_config.ok THEN [ok |-> FALSE, val |-> None, visited |-> seen]
             ELSE fold_arg_configs(disk, overwrite_arg_config(acc, inner_config.argument),
                                   Tail(paths), seen)

\* traverse_arg_configs: the same over the `argument` sections only
traverse_arg_configs(disk, start_path, final_path) ==
    LET root_config == load_dploy_config(disk, start_path)
    IN  IF ~root_config.ok
        THEN [ok |-> FALSE, val |-> None, visited |-> <<start_path>>]
        ELSE fold_arg_configs(disk, root_config.argument,
                              get_component_paths(start_path, final_path), <<start_path>>)

----------------------------------------------------------------------------
(* Addresses and states (state.rs) *)

\* a path given as a string in a config, in the environment or on the command
\* line: whether it starts with "/", and its components
Str(abs, comps) == [abs |-> abs, comps |-> comps]

\* RelativePathBuf::from(String): the components; a leading "/" is an empty
\* component and is dropped
RelFrom(s) == s.comps

LocalRoot(path) == [kind |-> "local", path |-> path, url |-> "", git_ref |-> ""]
GitRoot(url, git_ref, path) == [kind |-> "git", path |-> path, url |-> url, git_ref |-> git_ref]

\* Address::from_config_addr: a relative local path is joined onto the current
\* resolve_root, an absolute one is taken as it is; state_path and state_root
\* default to the empty path
from_config_addr(value, resolve_root) ==
    IF value.kind = "git"
    THEN [root       |-> GitRoot(value.url, value.git_ref,
                                 RelFrom(UnwrapOr(value.target_path, Str(FALSE, <<>>)))),
          state_path |-> RelFrom(UnwrapOr(value.state_path, Str(FALSE, <<>>))),
          state_root |-> RelFrom(UnwrapOr(value.state_root, Str(FALSE, <<>>)))]
    ELSE [root       |-> LocalRoot(IF value.path.abs
                                   THEN value.path.comps
                                   ELSE to_utf8_path(value.path.comps, resolve_root)),
          state_path |-> RelFrom(UnwrapOr(value.state_path, Str(FALSE, <<>>))),
          state_root |-> RelFrom(UnwrapOr(value.state_root, Str(FALSE, <<>>)))]

\* a faulty merge_config: the new state_root is folded into resolve_root
merge_config_rooted(self, other) ==
    [state_path   |-> IF IsSome(other.state_path)
                      THEN RelFrom(Unwrap(other.state_path)) ELSE self.state_path,
     state_root   |-> IF IsSome(other.state_root)
                      THEN RelFrom(Unwrap(other.state_root)) ELSE self.state_root,
     resolve_root |-> IF IsSome(other.state_root)
                      THEN to_utf8_path(RelFrom(Unwrap(other.state_root)), self.resolve_root)
                      ELSE self.resolve_root,
     address      |-> IF IsSome(other.address)
                      THEN Some(from_config_addr(Unwrap(other.address), self.resolve_root))
                      ELSE self.address]

\* a faulty merge_config: an address recorded before is kept
merge_config_first(self, other) ==
    [state_path   |-> IF IsSome(other.state_path)
                      THEN RelFrom(Unwrap(other.state_path)) ELSE self.state_path,
     state_root   |-> IF IsSome(other.state_root)
                      THEN RelFrom(Unwrap(other.state_root)) ELSE self.state_root,
     resolve_root |-> self.resolve_root,
     address      |-> IF IsSome(self.address) THEN self.address
                      ELSE IF IsSome(other.address)
                      THEN Some(from_config_addr(Unwrap(other.address), self.resolve_root))
                      ELSE None]

\* State::merge_config
merge_config(self, other) ==
    [state_path   |-> IF IsSome(other.state_path)
                      THEN RelFrom(Unwrap(other.state_path)) ELSE self.state_path,
     state_root   |-> IF IsSome(other.state_root)
                      THEN RelFrom(Unwrap(other.state_root)) ELSE self.state_root,
     resolve_root |-> self.resolve_root,
     address      |-> IF IsSome(other.address)
                      THEN Some(from_config_addr(Unwrap(other.address), self.resolve_root))
                      ELSE self.address]

\* a faulty State::same: state_path is not compared
same_roots(self, other) ==
    /\ self.resolve_root = other.resolve_root
    /\ Normalize(self.state_root) = Normalize(other.state_root)

\* State::same
same(self, other) ==
    /\ self.resolve_root = other.resolve_root
    /\ Normalize(self.state_path) = Normalize(other.state_path)
    /\ Normalize(self.state_root) = Normalize(other.state_root)

\* one pass of the loop of converge_state over the disk `disk`:
\*   "err"    the traversal failed (converge_state returns Err)
\*   "absent" the merged config has no state section (break, state unchanged)
\*   "stable" new_state.same(state) (state = new_state, break)
\*   "moved"  state = new_state, next pass
converge_pass(st, disk) ==
    LET state_root_path == to_utf8_path(st.state_root, st.resolve_root)
        config == traverse_configs(disk, state_root_path, st.state_path)
    IN  IF ~config.ok THEN [kind |-> "err", state |-> st]
        ELSE IF ~IsSome(config.val.state) THEN [kind |-> "absent", state |-> st]
        ELSE LET new_state == merge_config(st, Unwrap(config.val.state))
             IN  [kind  |-> IF same(new_state, st) THEN "stable" ELSE "moved",
                  state |-> new_state]

\* the directory of the snapshot that get_dir_from_git materializes
SnapshotDir(url, git_ref) == <<"s">>

\* get_dir_from_git when git succeeds: the target path below the snapshot
get_dir_from_git(addr, state_path, state_root) ==
    [resolve_root |-> to_utf8_path(addr.path, SnapshotDir(addr.url, addr.git_ref)),
     state_path   |-> state_path,
     state_root   |-> state_root,
     address      |-> None]

\* a faulty resolve_address: the state_path in force is carried over
resolve_address_carry(address) ==
    IF address.root.kind = "git"
    THEN get_dir_from_git(address.root, state.state_path \o address.state_path,
                          address.state_root)
    ELSE [resolve_root |-> address.root.path,
          state_path   |-> state.state_path \o address.state_path,
          state_root   |-> address.state_root,
          address      |-> None]

\* resolve_address when it returns Ok
resolve_address(address) ==
    IF address.root.kind = "git"
    THEN get_dir_from_git(address.root, address.state_path, address.state_root)
    ELSE [resolve_root |-> address.root.path,
          state_path   |-> address.state_path,
          state_root   |-> address.state_root,
          address      |-> None]

----------------------------------------------------------------------------
(* Argument resolution (resolve.rs) *)

\* SecretScopeArguments::default()
DefaultScopeArgs == [service |-> None, sub |-> None, name |-> None, require_hash |-> None]

\* RunArguments::default()
DefaultRunArgs ==
    [executable |-> None, execution_path |-> None, envs |-> <<>>,
     scope_args |-> DefaultScopeArgs]

\* SecretScopeArguments::merge: a field of other wins when it is set
SecretScopeArguments_merge(self, other) ==
    [service      |-> OrOpt(other.service, self.service),
     sub          |-> OrOpt(other.sub, self.sub),
     name         |-> OrOpt(other.name, self.name),
     require_hash |-> OrOpt(other.require_hash, self.require_hash)]

\* a faulty RunArguments::merge: self's executable wins
RunArguments_merge_self(self, other) ==
    [executable     |-> OrOpt(self.executable, other.executable),
     execution_path |-> OrOpt(other.execution_path, self.execution_path),
     envs           |-> merge_vars(self.envs, other.envs),
     scope_args     |-> SecretScopeArguments_merge(self.scope_args, other.scope_args)]

\* RunArguments::merge
RunArguments_merge(self, other) ==
    [executable     |-> OrOpt(other.executable, self.executable),
     execution_path |-> OrOpt(other.execution_path, self.execution_path),
     envs           |-> merge_vars(self.envs, other.envs),
     scope_args     |-> SecretScopeArguments_merge(self.scope_args, other.scope_args)]

\* Resolvable<String> for Utf8PathBuf: the string as a relative path, joined
\* onto resolve_root
resolve_from(value, resolve_root) == to_utf8_path(RelFrom(value), resolve_root)

\* Resolvable<Option<T>> for Option<U>
resolve_from_option(value, resolve_root) ==
    IF IsSome(value) THEN Some(resolve_from(Unwrap(value), resolve_root)) ELSE None

\* From<ConfigScope> for SecretScopeArguments
SecretScopeArguments_from(value) ==
    [service |-> value.service, name |-> value.name, sub |-> value.sub,
     require_hash |-> value.require_hash]

\* RunArguments::from_config
from_config(value, resolve_root) ==
    [executable     |-> resolve_from_option(value.executable, resolve_root),
     execution_path |-> resolve_from_option(value.execution_path, resolve_root),
     envs           |-> UnwrapOr(value.envs, <<>>),
     scope_args     |-> IF IsSome(value.scope)
                        THEN SecretScopeArguments_from(Unwrap(value.scope))
                        ELSE DefaultScopeArgs]

\* Resolvable<Config> for Option<RunArguments>
resolve_from_config(value, resolve_root) ==
    IF IsSome(value.argument)
    THEN Some(from_config(Unwrap(value.argument), resolve_root))
    ELSE None

\* env_scope_args over the process environment env (variable -> Option)
env_scope_args(env) ==
    [name         |-> env.TIDPLOY_SECRET_SCOPE_NAME,
     sub          |-> env.TIDPLOY_SECRET_SCOPE_SUB,
     service      |-> env.TIDPLOY_SECRET_SERVICE,
     require_hash |-> IF IsSome(env.TIDPLOY_SECRET_REQUIRE_HASH)
                      THEN Some(Unwrap(env.TIDPLOY_SECRET_REQUIRE_HASH) # "")
                      ELSE None]

\* env_run_args
env_run_args(env, resolve_root) ==
    [executable     |-> resolve_from_option(env.TIDPLOY_RUN_EXECUTABLE, resolve_root),
     execution_path |-> resolve_from_option(env.TIDPLOY_RUN_EXECUTION_PATH, resolve_root),
     envs           |-> <<>>,
     scope_args     |-> env_scope_args(env)]

\* resolve_scope
resolve_scope(scope_args, name, sub, hash) ==
    [service |-> UnwrapOr(scope_args.service, "tidploy"),
     name    |-> UnwrapOr(scope_args.name, name),
     sub     |-> UnwrapOr(scope_args.sub, sub),
     hash    |-> IF UnwrapOr(scope_args.require_hash, FALSE)
                 THEN hash ELSE "tidploy_default_hash"]

\* the try_fold of traverse_args for Option<RunArguments>: the config of each
\* component path is resolved against that path and merged into state
RECURSIVE fold_args(_, _, _)
fold_args(disk, acc, paths) ==
    IF paths = <<>> THEN [ok |-> TRUE, val |-> acc]
    ELSE LET path == Head(paths)
             c == load_dploy_config(disk, path)
             inner == resolve_from_config(c, path)
         IN  IF ~c.ok THEN [ok |-> FALSE, val |-> None]
             ELSE fold_args(disk,
                            merge_option(acc, inner,
                                         RunArguments_merge(Unwrap(acc), Unwrap(inner))),
                            Tail(paths))

\* traverse_args for Option<RunArguments>: the root config is resolved
\* against start_path
traverse_args(disk, start_path, final_path) ==
    LET root_config == load_dploy_config(disk, start_path)
    IN  IF ~root_config.ok THEN [ok |-> FALSE, val |-> None]
        ELSE fold_args(disk, resolve_from_config(root_config, start_path),
                       get_component_paths(start_path, final_path))

\* a faulty resolve_run: the default executable is entrypoint.sh in
\* resolve_root, whatever execution_path is
resolve_run_root(disk, env, resolve_state, cli_args) ==
    LET run_args_env == env_run_args(env, resolve_state.resolve_root)
        merged_args == RunArguments_merge(run_args_env, cli_args)
        config_args == traverse_args(disk, resolve_state.resolve_root, resolve_state.state_path)
        final_args == RunArguments_merge(UnwrapOr(config_args.val, DefaultRunArgs), merged_args)
        execution_path == UnwrapOr(final_args.execution_path, resolve_state.resolve_root)
    IN  IF ~config_args.ok THEN [ok |-> FALSE, val |-> None]
        ELSE [ok  |-> TRUE,
              val |-> Some([executable     |-> UnwrapOr(final_args.executable,
                                                        Append(resolve_state.resolve_root,
                                                               "entrypoint.sh")),
                            execution_path |-> execution_path,
                            envs           |-> final_args.envs,
                            scope          |-> resolve_scope(final_args.scope_args,
                                                             resolve_state.name,
                                                             resolve_state.sub,
                                                             resolve_state.hash)])]

\* resolve_run: Ok(RunResolved) or Err
resolve_run(disk, env, resolve_state, cli_args) ==
    LET run_args_env == env_run_args(env, resolve_state.resolve_root)
        merged_args == RunArguments_merge(run_args_env, cli_args)
        config_args == traverse_args(disk, resolve_state.resolve_root, resolve_state.state_path)
        final_args == RunArguments_merge(UnwrapOr(config_args.val, DefaultRunArgs), merged_args)
        execution_path == UnwrapOr(final_args.execution_path, resolve_state.resolve_root)
    IN  IF ~config_args.ok THEN [ok |-> FALSE, val |-> None]
        ELSE [ok  |-> TRUE,
              val |-> Some([executable     |-> UnwrapOr(final_args.executable,
                                                        Append(execution_path, "entrypoint.sh")),
                            execution_path |-> execution_path,
                            envs           |-> final_args.envs,
                            scope          |-> resolve_scope(final_args.scope_args,
                                                             resolve_state.name,
                                                             resolve_state.sub,
                                                             resolve_state.hash)])]

\* SecretArguments::merge_env_config followed by SecretArguments::resolve
\* (merge_and_resolve for a secret): Ok(SecretResolved) or Err
merge_and_resolve(disk, env, resolve_state, secret_args) ==
    LET config == traverse_arg_configs(disk, resolve_state.resolve_root, resolve_state.state_path)
        merged == SecretScopeArguments_merge(env_scope_args(env), secret_args.scope_args)
        config_scope == IF IsSome(config.val) /\ IsSome(Unwrap(config.val).scope)
                        THEN SecretScopeArguments_from(Unwrap(Unwrap(config.val).scope))
                        ELSE DefaultScopeArgs
        scope_args == SecretScopeArguments_merge(config_scope, merged)
    IN  IF ~config.ok THEN [ok |-> FALSE, val |-> None]
        ELSE [ok  |-> TRUE,
              val |-> Some([key   |-> secret_args.key,
                            scope |-> resolve_scope(scope_args, resolve_state.name,
                                                    resolve_state.sub, resolve_state.hash)])]

\* the RunArguments of a command line: a path given as a string is resolved
\* against resolve_root
cli_run_args(cli, resolve_root) ==
    [executable     |-> resolve_from_option(cli.executable, resolve_root),
     execution_path |-> resolve_from_option(cli.execution_path, resolve_root),
     envs           |-> cli.envs,
     scope_args     |-> cli.scope_args]

\* a faulty create_resolve_state: a resolve_root without a file name gives
\* the empty name
create_resolve_state_unnamed(st) ==
    LET root == st.resolve_root
    IN  [ok  |-> TRUE,
         val |-> Some([state_root   |-> to_utf8_path(st.state_root, st.resolve_root),
                       state_path   |-> st.state_path,
                       resolve_root |-> st.resolve_root,
                       name         |-> IF root = <<>> \/ root[Len(root)] = ".."
                                        THEN "" ELSE root[Len(root)],
                       sub          |-> "tidploy_root",
                       hash         |-> "todo_hash"])]

\* create_resolve_state, after converge_address returned st: Err(InvalidRoot)
\* when resolve_root has no file name
create_resolve_state(st) ==
    LET root == st.resolve_root
    IN  IF root = <<>> \/ root[Len(root)] = ".." THEN [ok |-> FALSE, val |-> None]
        ELSE [ok  |-> TRUE,
              val |-> Some([state_root   |-> to_utf8_path(st.state_root, st.resolve_root),
                            state_path   |-> st.state_path,
                            resolve_root |-> st.resolve_root,
                            name         |-> root[Len(root)],
                            sub          |-> "tidploy_root",
                            hash         |-> "todo_hash"])]

----------------------------------------------------------------------------
(* The inputs of address resolution: what configs may say, and the address *)
(* converge_address starts from                                            *)

\* the `address` a config's state section may declare: an absolute local
\* path, a relative one with a state_path of its own, a Git repository
CfgAddresses ==
    {[kind |-> "local", path |-> Str(TRUE, <<"a">>), url |-> "", git_ref |-> "",
      target_path |-> None, state_path |-> None, state_root |-> None],
     [kind |-> "local", path |-> Str(TRUE, <<"b">>), url |-> "", git_ref |-> "",
      target_path |-> None, state_path |-> None, state_root |-> None],
     [kind |-> "local", path |-> Str(FALSE, <<"b">>), url |-> "", git_ref |-> "",
      target_path |-> None, state_path |-> Some(Str(FALSE, <<"b">>)), state_root |-> None],
     [kind |-> "git", path |-> Str(FALSE, <<>>), url |-> "u", git_ref |-> "v",
      target_path |-> None, state_path |-> None, state_root |-> None]}

\* the state sections a config file may hold
StateConfigs ==
    [address    : {None} \cup {Some(a) : a \in CfgAddresses},
     state_root : {None, Some(Str(FALSE, <<"a">>))},
     state_path : {None, Some(Str(FALSE, <<"b">>)), Some(Str(FALSE, <<".", "a">>))}]

\* the config files a directory may hold
StateFiles ==
    {BadConfig} \cup {[ok |-> TRUE, state |-> Some(sc), argument |-> None] : sc \in StateConfigs}

\* the size of a config file: the fields its state section sets (at least
\* one for the file itself)
Weight(c) ==
    IF c = DefaultConfig THEN 0
    ELSE IF ~c.ok THEN 1
    ELSE LET sc == Unwrap(c.state)
             n == (IF IsSome(sc.address) THEN 1 ELSE 0)
                  + (IF IsSome(sc.state_root) THEN 1 ELSE 0)
                  + (IF IsSome(sc.state_path) THEN 1 ELSE 0)
         IN  IF n = 0 THEN 1 ELSE n

RECURSIVE DiskWeight(_)
DiskWeight(disk) ==
    IF DOMAIN disk = {} THEN 0
    ELSE LET d == CHOOSE x \in DOMAIN disk : TRUE
         IN  Weight(disk[d]) + DiskWeight([x \in DOMAIN disk \ {d} |-> disk[x]])

\* the addresses Address::from_addr_in hands to converge_address
AddrIns ==
    {[root |-> LocalRoot(<<"a">>), state_root |-> <<>>, state_path |-> <<>>],
     [root |-> LocalRoot(<<"a">>), state_root |-> <<>>, state_path |-> <<"a">>],
     [root |-> GitRoot("u", "v", <<>>), state_root |-> <<>>, state_path |-> <<>>]}

\* the disks that agree with `disk` on what was read and say what the
\* directories `unread` hold, their config files setting at most `budget`
\* fields in all
RECURSIVE RevealFrom(_, _, _)
RevealFrom(disk, unread, budget) ==
    IF unread = {} THEN {disk}
    ELSE LET d == CHOOSE x \in unread : TRUE
             files == {c \in StateFiles \cup {DefaultConfig} : Weight(c) <= budget}
         IN  UNION {RevealFrom(disk @@ (d :> c), unread \ {d}, budget - Weight(c)) :
                        c \in files}

\* the disks a pass that reads the directories `dirs` may find, the config
\* files of the disk setting at most MaxSettings fields in all
Reveal(disk, dirs) ==
    RevealFrom(disk, dirs \ DOMAIN disk, MaxSettings - DiskWeight(disk))

\* the directories one pass of converge_state may read
Window(st) ==
    LET start == to_utf8_path(st.state_root, st.resolve_root)
    IN  {Canon(start)} \cup {Canon(q) : q \in Range(get_component_paths(start, st.state_path))}

----------------------------------------------------------------------------
(* The inputs of a command: command line, environment, config files *)

\* the resolve_root converge_address returned, and the directories below it
\* that may hold a config file
ResolveRoot == <<"r">>
ConfigDirs == [cfg1 |-> ResolveRoot, cfg2 |-> <<"r", "a">>, cfg3 |-> <<"r", "a", "b">>]

\* the state_path converge_address returned
StatePaths == {<<>>, <<"a">>, <<".", "a", "b">>}

\* every source gives each field a value of its own
Tag == [cli |-> "x", env |-> "y", cfg1 |-> "z1", cfg2 |-> "z2", cfg3 |-> "z3"]

ConfigVar(key, env_name) == [key |-> key, env_name |-> env_name]

\* the values a source may give a field, listed
Values(src, field) ==
    IF field \in {"executable", "execution_path"} THEN <<Str(FALSE, <<Tag[src]>>)>>
    ELSE IF field \in {"service", "name", "sub"} THEN <<Tag[src]>>
    ELSE IF field = "require_hash"
         THEN IF src = "env" THEN <<"", "1">>
              ELSE IF src = "cli" THEN <<TRUE, FALSE>>
              ELSE <<TRUE>>
    ELSE IF field = "envs"
         THEN IF src = "cli"
              THEN << <<ConfigVar("k1", "x"), ConfigVar("k2", "x"), ConfigVar("k1", "x2")>> >>
              ELSE IF src = "cfg1" THEN << <<ConfigVar("k1", "z1"), ConfigVar("k2", "z1")>> >>
              ELSE IF src = "cfg2" THEN << <<ConfigVar("k2", "z2")>> >>
              ELSE IF src = "cfg3" THEN << <<ConfigVar("k3", "z3"), ConfigVar("k1", "z3")>> >>
              ELSE <<>>
    ELSE IF src \in {"cfg1", "cfg2", "cfg3"}
         THEN <<TRUE>>      \* "bad": the file does not parse
         ELSE <<>>

\* the sources and the fields, listed: slot k is field (k - 1) % 8 + 1 of
\* source (k - 1) \div 8 + 1
SourceSeq == <<"cli", "env", "cfg1", "cfg2", "cfg3">>
FieldSeq == <<"executable", "execution_path", "envs", "service", "name", "sub",
              "require_hash", "bad">>
SlotSource(k) == SourceSeq[((k - 1) \div Len(FieldSeq)) + 1]
SlotField(k) == FieldSeq[((k - 1) % Len(FieldSeq)) + 1]

\* the sets of at most n settings <<source, field, number of the value>> that
\* extend one of `partials` by settings of the slots k.. among `allowed`
RECURSIVE SettingsFrom(_, _, _, _)
SettingsFrom(partials, k, n, allowed) ==
    IF k > Len(SourceSeq) * Len(FieldSeq) THEN partials
    ELSE LET src == SlotSource(k)
             field == SlotField(k)
             more == IF <<src, field>> \in allowed
                     THEN {p \cup {<<src, field, v>>} :
                              p \in {q \in partials : Cardinality(q) < n},
                              v \in 1..Len(Values(src, field))}
                     ELSE {}
         IN  SettingsFrom(partials \cup more, k + 1, n, allowed)

Settings(n, allowed) == SettingsFrom({{}}, 1, n, allowed)

\* what the files can set, and what each command reads of the command line
\* and the environment: the run command everything, the secret command the
\* scope fields
ConfigSlots == {"cfg1", "cfg2", "cfg3"} \X Range(FieldSeq)
RunSlots == {"cli", "env"} \X Range(FieldSeq)
SecretSlots == {"cli", "env"} \X {"service", "name", "sub", "require_hash"}

\* what the settings p give the field of the source: an Option
Val(p, src, field) ==
    IF \E e \in p : e[1] = src /\ e[2] = field
    THEN Some(Values(src, field)[(CHOOSE e \in p : e[1] = src /\ e[2] = field)[3]])
    ELSE None

\* the command line of settings p
CliOf(p) ==
    [executable     |-> Val(p, "cli", "executable"),
     execution_path |-> Val(p, "cli", "execution_path"),
     envs           |-> UnwrapOr(Val(p, "cli", "envs"), <<>>),
     scope_args     |-> [service      |-> Val(p, "cli", "service"),
                         name         |-> Val(p, "cli", "name"),
                         sub          |-> Val(p, "cli", "sub"),
                         require_hash |-> Val(p, "cli", "require_hash")]]

\* the process environment of settings p
EnvOf(p) ==
    [TIDPLOY_RUN_EXECUTABLE      |-> Val(p, "env", "executable"),
     TIDPLOY_RUN_EXECUTION_PATH  |-> Val(p, "env", "execution_path"),
     TIDPLOY_SECRET_SERVICE      |-> Val(p, "env", "service"),
     TIDPLOY_SECRET_SCOPE_NAME   |-> Val(p, "env", "name"),
     TIDPLOY_SECRET_SCOPE_SUB    |-> Val(p, "env", "sub"),
     TIDPLOY_SECRET_REQUIRE_HASH |-> Val(p, "env", "require_hash")]

\* the config file of directory src under settings p, as load_dploy_config
\* returns it
FileOf(p, src) ==
    IF IsSome(Val(p, src, "bad")) THEN BadConfig
    ELSE LET scoped == \E f \in {"service", "name", "sub", "require_hash"} :
                           IsSome(Val(p, src, f))
         IN  [ok       |-> TRUE,
              state    |-> None,
              argument |-> Some([scope |-> IF scoped
                                           THEN Some([service      |-> Val(p, src, "service"),
                                                      name         |-> Val(p, src, "name"),
                                                      sub          |-> Val(p, src, "sub"),
                                                      require_hash |-> Val(p, src, "require_hash")])
                                           ELSE None,
                                 executable     |-> Val(p, src, "executable"),
                                 execution_path |-> Val(p, src, "execution_path"),
                                 envs           |-> Val(p, src, "envs")])]

\* the disk of settings p: a directory holds a file when p sets something in it
DiskOf(p) ==
    LET dirs == {src \in DOMAIN ConfigDirs : \E e \in p : e[1] = src}
    IN  [d \in {ConfigDirs[src] : src \in dirs} |->
            FileOf(p, CHOOSE src \in dirs : ConfigDirs[src] = d)]

\* the settings the files of a disk hold (an unreadable file counts as one)
Used(disk) ==
    LET held(src) ==
            IF ConfigDirs[src] \notin DOMAIN disk THEN 0
            ELSE IF ~disk[ConfigDirs[src]].ok THEN 1
            ELSE LET arg == Unwrap(disk[ConfigDirs[src]].argument)
                 IN  Cardinality({f \in {"executable", "execution_path", "envs"} :
                                     IsSome(arg[f])})
                     + (IF IsSome(arg.scope)
                        THEN Cardinality({f \in DOMAIN Unwrap(arg.scope) :
                                             IsSome(Unwrap(arg.scope)[f])})
                        ELSE 0)
    IN  held("cfg1") + held("cfg2") + held("cfg3")

NoInput == [cli |-> CliOf({}), env |-> EnvOf({})]
NoOut == [op |-> "none"]
\* store_dir before anything was cached
NoStore == [clones |-> <<>>, snaps |-> <<>>]
\* no invocation in progress, an empty credential store, no child
NoRunning == <<>>
NoKeyring == [e \in {} |-> ""]
NoChild == [at |-> "none"]

----------------------------------------------------------------------------
(* converge_address as a state machine *)

Init ==
    /\ fs = [d \in {} |-> DefaultConfig]
    /\ addr_in \in AddrIns
    /\ pc = "start"
    /\ state = [resolve_root |-> <<>>, state_path |-> <<>>, state_root |-> <<>>,
                address |-> None]
    /\ i = 0
    /\ hops = <<>>
    /\ overflow = FALSE
    /\ declared = {}
    /\ input = NoInput
    /\ out = NoOut
    /\ store = NoStore
    /\ returned = <<>>
    /\ running = NoRunning
    /\ keyring = NoKeyring
    /\ child = NoChild

\* history: address is being resolved
Visit(address) ==
    IF Len(hops) < MaxTrace
    THEN /\ hops' = Append(hops, [addr |-> address, pending |-> None])
         /\ UNCHANGED overflow
    ELSE /\ overflow' = TRUE
         /\ UNCHANGED hops

\* history: converge_state returned st for the address resolved last
Settle(st) ==
    /\ hops' = IF overflow THEN hops
               ELSE [hops EXCEPT ![Len(hops)].pending = st.address]
    /\ UNCHANGED overflow

\* state = resolve_address(address, ..)?; the call of converge_state follows
Resolve(address) ==
    \/ /\ state' = resolve_address(address)
       /\ pc' = "converge"
       /\ i' = 0
       /\ Visit(address)
    \/ /\ address.root.kind = "git"      \* git fails: Err(StateError)
       /\ pc' = "error"
       /\ UNCHANGED <<state, i, hops, overflow>>

\* converge_address, line 542
Start ==
    /\ pc = "start"
    /\ Resolve(addr_in)
    /\ UNCHANGED <<fs, addr_in, declared, input, out, store,
                   returned, running, keyring, child>>

\* the address the merged config of a pass declares, as a set
DeclaredBy(st, disk) ==
    LET config == traverse_configs(disk, to_utf8_path(st.state_root, st.resolve_root),
                                   st.state_path)
    IN  IF config.ok /\ IsSome(config.val.state) /\ IsSome(Unwrap(config.val.state).address)
        THEN {from_config_addr(Unwrap(Unwrap(config.val.state).address), st.resolve_root)}
        ELSE {}

\* one pass of the loop of converge_state
Converge ==
    /\ pc = "converge"
    /\ fs' \in Reveal(fs, Window(state))
    /\ LET r == converge_pass(state, fs')
       IN  /\ declared' = declared \cup DeclaredBy(state, fs')
           /\ state' = r.state
           /\ \/ /\ r.kind = "err"
                 /\ pc' = "error"
                 /\ UNCHANGED <<i, hops, overflow>>
              \/ /\ r.kind \in {"absent", "stable"}
                 /\ pc' = "check"
                 /\ Settle(r.state)
                 /\ UNCHANGED i
              \/ /\ r.kind = "moved"
                 /\ pc' = "converge"
                 /\ i' = IF i < MaxIter THEN i + 1 ELSE i
                 /\ UNCHANGED <<hops, overflow>>
    /\ UNCHANGED <<addr_in, input, out, store, returned, running, keyring, child>>

\* converge_address, the body of `while let Some(address) = state.address`
Redirect ==
    /\ pc = "check"
    /\ IsSome(state.address)
    /\ Resolve(Unwrap(state.address))
    /\ UNCHANGED <<fs, addr_in, declared, input, out, store,
                   returned, running, keyring, child>>

\* a faulty converge_address: the loop ends whatever state.address is
Finish_early ==
    /\ pc = "check"
    /\ pc' = "done"
    /\ UNCHANGED <<fs, addr_in, state, i, hops, overflow, declared, input, out, store,
                   returned, running, keyring, child>>

\* converge_address, the loop ends: Ok(state)
Finish ==
    /\ pc = "check"
    /\ ~IsSome(state.address)
    /\ pc' = "done"
    /\ UNCHANGED <<fs, addr_in, state, i, hops, overflow, declared, input, out, store,
                   returned, running, keyring, child>>

Next == Start \/ Converge \/ Redirect \/ Finish

Spec == Init /\ [][Next]_vars

\* a sequential program takes its next step: weak fairness of each step.
\* A pass of converge_state can always be taken while pc = "converge" (it
\* finds some disk), so the weak fairness of Converge is written with that
\* state predicate in place of ENABLED <<Converge>>_vars.
FairSpec ==
    /\ Spec
    /\ WF_vars(Start \/ Redirect \/ Finish)
    /\ ([]<>(pc # "converge") \/ []<><<Converge>>_vars)

----------------------------------------------------------------------------
(* The commands that follow converge_address *)

\* converge_address has returned a state under ResolveRoot, and the disk
\* holds the config files of some settings
InitArgs ==
    /\ \E p \in Settings(MaxSet, ConfigSlots) : fs = DiskOf(p)
    /\ \E sp \in StatePaths :
          state = [resolve_root |-> ResolveRoot, state_path |-> sp, state_root |-> <<>>,
                   address |-> None]
    /\ input = NoInput
    /\ addr_in = [root |-> LocalRoot(ResolveRoot), state_root |-> <<>>, state_path |-> <<>>]
    /\ pc = "done"
    /\ i = 0
    /\ hops = <<>>
    /\ overflow = FALSE
    /\ declared = {}
    /\ out = NoOut
    /\ store = NoStore
    /\ returned = <<>>
    /\ running = NoRunning
    /\ keyring = NoKeyring
    /\ child = NoChild

\* the run command with the command line and environment of some settings:
\* create_resolve_state, then resolve_run
RunCommand ==
    /\ pc = "done"
    /\ \E q \in Settings(MaxSet - Used(fs), RunSlots) :
          LET rs == create_resolve_state(state)
          IN  /\ input' = [cli |-> CliOf(q), env |-> EnvOf(q)]
              /\ out' = [op  |-> "run",
                         res |-> IF rs.ok
                                 THEN resolve_run(fs, EnvOf(q), Unwrap(rs.val),
                                                  cli_run_args(CliOf(q), state.resolve_root))
                                 ELSE [ok |-> FALSE, val |-> None]]
    /\ pc' = "resolved"
    /\ UNCHANGED <<fs, addr_in, state, i, hops, overflow, declared, store,
                   returned, running, keyring, child>>

\* the secret command, its command line a key and a scope:
\* create_resolve_state, then merge_env_config and resolve
SecretCommand ==
    /\ pc = "done"
    /\ \E q \in Settings(MaxSet - Used(fs), SecretSlots) :
          LET rs == create_resolve_state(state)
          IN  /\ input' = [cli |-> CliOf(q), env |-> EnvOf(q)]
              /\ out' = [op  |-> "secret",
                         res |-> IF rs.ok
                                 THEN merge_and_resolve(fs, EnvOf(q), Unwrap(rs.val),
                                                        [key |-> "key",
                                                         scope_args |-> CliOf(q).scope_args])
                                 ELSE [ok |-> FALSE, val |-> None]]
    /\ pc' = "resolved"
    /\ UNCHANGED <<fs, addr_in, state, i, hops, overflow, declared, store,
                   returned, running, keyring, child>>

\* traverse_arg_configs on its own
TraverseArgConfigs ==
    /\ pc = "done"
    /\ out' = [op  |-> "traverse",
               res |-> traverse_arg_configs(fs, state.resolve_root, state.state_path)]
    /\ pc' = "resolved"
    /\ UNCHANGED <<fs, addr_in, state, i, hops, overflow, declared, input, store,
                   returned, running, keyring, child>>

\* converge_state on the state and the disk of the command, when its loop ends
\* in the first pass: Err, or Ok(state)
ConvergeState ==
    /\ pc = "done"
    /\ LET r == converge_pass(state, fs)
       IN  /\ r.kind # "moved"
           /\ out' = [op  |-> "converge",
                      res |-> IF r.kind = "err" THEN [ok |-> FALSE, val |-> None]
                              ELSE [ok |-> TRUE, val |-> Some(r.state)]]
    /\ pc' = "resolved"
    /\ UNCHANGED <<fs, addr_in, state, i, hops, overflow, declared, input, store,
                   returned, running, keyring, child>>

NextArgs == RunCommand \/ SecretCommand \/ TraverseArgConfigs \/ ConvergeState

SpecArgs == InitArgs /\ [][NextArgs]_vars

----------------------------------------------------------------------------
(* The Git cache (git.rs) *)

\* A string is the sequence of its characters; a ref name is the sequence of
\* its parts between "/", a peeled ref ending in the part "^{}"; a line of
\* output is the sequence of its whitespace-separated tokens; the output of a
\* subprocess is the sequence of its lines.

\* lines an output of `git ls-remote` holds at most
MaxLines == 3
\* calls of get_dir_from_git in one behaviour
MaxCalls == 2
\* the most invocations of get_dir_from_git that run at once
MaxInvocations == 2
\* the writes of a child of run_entrypoint
MaxWrites == 3
\* str_last_n(&commit, 10)
ShortLen == 10

\* a commit id: ShortLen zeros and a last character
Sha(c) == [k \in 1..(ShortLen + 1) |-> IF k = ShortLen + 1 THEN c ELSE "0"]

\* str::ends_with("^{}") on a ref name
ends_with_peel(tag) == tag # <<>> /\ tag[Len(tag)] = "^{}"

\* str::contains("refs/remotes") on a ref name
contains_remotes(tag) ==
    \E k \in 1..(Len(tag) - 1) : tag[k] = "refs" /\ tag[k + 1] = "remotes"

\* out.trim().split('\n'): the lines; the empty output splits into one empty
\* line
split_lines(text) == IF text = <<>> THEN << <<>> >> ELSE text

\* what ls_remote returns: Ok(commit), or Err of run_git (the subprocess
\* could not be run or exited with failure), or Err(GitError::Failed) of
\* ls_remote itself
LsOk(commit) == [ok |-> TRUE, val |-> Some(commit), err |-> None]
LsErr(kind) == [ok |-> FALSE, val |-> None, err |-> Some(kind)]

\* the ShaRefs of the lines, those of "refs/remotes" dropped (sha_refs after
\* retain)
sha_refs_of(lines) ==
    SelectSeq([k \in DOMAIN lines |-> [sha |-> lines[k][1], tag |-> lines[k][2]]],
              LAMBDA sr : ~contains_remotes(sr.tag))

\* a faulty ls_remote: of two refs with different shas the first is taken
ls_remote_first(run, pattern) ==
    LET lines == split_lines(run.out)
        sha_refs == sha_refs_of(lines)
    IN  IF ~run.ok THEN LsErr("run_git")
        ELSE IF \E k \in DOMAIN lines : Len(lines[k]) # 2 THEN LsErr("Failed")
        ELSE IF sha_refs = <<>> THEN LsOk(pattern)
        ELSE IF Len(sha_refs) >= 2 /\ \A k \in DOMAIN sha_refs : sha_refs[k].sha = sha_refs[1].sha
             THEN LsOk(sha_refs[1].sha)
        ELSE IF Len(sha_refs) = 2 THEN LsOk(sha_refs[1].sha)
        ELSE IF Len(sha_refs) = 1 THEN LsOk(sha_refs[1].sha)
        ELSE LsErr("Failed")

\* a faulty ls_remote: of three or more refs the first is taken
ls_remote_lenient(run, pattern) ==
    LET lines == split_lines(run.out)
        sha_refs == sha_refs_of(lines)
    IN  IF ~run.ok THEN LsErr("run_git")
        ELSE IF \E k \in DOMAIN lines : Len(lines[k]) # 2 THEN LsErr("Failed")
        ELSE IF sha_refs = <<>> THEN LsOk(pattern)
        ELSE IF Len(sha_refs) >= 2 /\ \A k \in DOMAIN sha_refs : sha_refs[k].sha = sha_refs[1].sha
             THEN LsOk(sha_refs[1].sha)
        ELSE IF Len(sha_refs) = 2
             THEN IF ends_with_peel(sha_refs[1].tag) THEN LsOk(sha_refs[1].sha)
                  ELSE IF ends_with_peel(sha_refs[2].tag) THEN LsOk(sha_refs[2].sha)
                       ELSE LsErr("Failed")
        ELSE LsOk(sha_refs[1].sha)

\* ls_remote, given what run_git returned for `git ls-remote origin pattern`
\* (ok: the subprocess ran and exited with success; out: its output).  A line
\* that has not two tokens is an error; the refs of "refs/remotes" are
\* dropped; then none left gives the pattern, all of one sha that sha, two
\* the peeled one, one its sha, anything else an error.
ls_remote(run, pattern) ==
    LET lines == split_lines(run.out)
        sha_refs == sha_refs_of(lines)
    IN  IF ~run.ok THEN LsErr("run_git")
        ELSE IF \E k \in DOMAIN lines : Len(lines[k]) # 2 THEN LsErr("Failed")
        ELSE IF sha_refs = <<>> THEN LsOk(pattern)
        ELSE IF Len(sha_refs) >= 2 /\ \A k \in DOMAIN sha_refs : sha_refs[k].sha = sha_refs[1].sha
             THEN LsOk(sha_refs[1].sha)
        ELSE IF Len(sha_refs) = 2
             THEN IF ends_with_peel(sha_refs[1].tag) THEN LsOk(sha_refs[1].sha)
                  ELSE IF ends_with_peel(sha_refs[2].tag) THEN LsOk(sha_refs[2].sha)
                       ELSE LsErr("Failed")
        ELSE IF Len(sha_refs) = 1 THEN LsOk(sha_refs[1].sha)
        ELSE LsErr("Failed")

\* str_last_n(s, n): the last n characters; None when the string is
\* shorter (nth_back(n - 1).unwrap() panics)
str_last_n(s, n) ==
    IF Len(s) < n THEN None
    ELSE Some(SubSeq(s, Len(s) - n + 1, Len(s)))

\* hash_last_n(input, 8): a function of the input
hash_last_n(s) == <<"sha256", s>>

\* parse_url_name: the last segment of the url up to its first "."
parse_url_name(url) == Head(url[Len(url)])

\* what a call returns: Ok(State), Err(StateError), or a panic
GitErr == [ok |-> FALSE, val |-> None, panic |-> FALSE]
GitPanic == [ok |-> FALSE, val |-> None, panic |-> TRUE]

\* A call runs against a plan `fail`: the name of the one step that fails if
\* the call reaches it ("none": every step succeeds).  A result is
\* [store, calls, ok]: the cache afterwards, the subprocesses and file
\* operations performed in order, and whether the steps succeeded.

\* repo_clone and the metadata file of the clone (get_dir_from_git, the
\* branch `!target_dir.exists()`).  A `git clone` that fails leaves no
\* directory; a later failure leaves the clone without its metadata file.
ensure_clone(st, dir_name, fail) ==
    LET cloned == [st EXCEPT !.clones = dir_name :> [meta |-> FALSE, fetched |-> FALSE] @@ @]
        written == [st EXCEPT !.clones = dir_name :> [meta |-> TRUE, fetched |-> FALSE] @@ @]
    IN  IF dir_name \in DOMAIN st.clones THEN [store |-> st, calls |-> <<>>, ok |-> TRUE]
        ELSE IF fail = "clone" THEN [store |-> st, calls |-> <<"clone">>, ok |-> FALSE]
        ELSE IF fail = "sparse-init"
             THEN [store |-> cloned, calls |-> <<"clone", "sparse-init">>, ok |-> FALSE]
        ELSE IF fail = "write-repo-meta"
             THEN [store |-> cloned, calls |-> <<"clone", "sparse-init", "write-repo-meta">>,
                   ok |-> FALSE]
        ELSE [store |-> written, calls |-> <<"clone", "sparse-init", "write-repo-meta">>,
              ok |-> TRUE]

\* the steps of the branch `!commit_path.exists()`, in the order of the code
MaterializeSteps ==
    <<"fetch", "copy", "checkout", "sparse-checkout", "remove-git", "write-meta">>

\* a faulty materialization: the snapshot is made in a temporary directory
snapshot_dir_temp(ctx) == <<"tmp">> \o ctx.commit_path

\* the directory the snapshot is made in: commit_path itself
snapshot_dir(ctx) == ctx.commit_path

\* the cache after a step has succeeded
step_done(st, step, ctx) ==
    CASE step = "fetch" ->
            [st EXCEPT !.clones[ctx.dir_name].fetched = TRUE]
      [] step = "copy" ->
            [st EXCEPT !.snaps = snapshot_dir(ctx) :> [copied |-> TRUE, dotgit |-> TRUE,
                                                       commit |-> None, sparse |-> None,
                                                       meta |-> FALSE] @@ @]
      [] step = "checkout" ->
            [st EXCEPT !.snaps[snapshot_dir(ctx)].commit = Some(ctx.commit)]
      [] step = "sparse-checkout" ->
            [st EXCEPT !.snaps[snapshot_dir(ctx)].sparse = Some(ctx.paths)]
      [] step = "remove-git" ->
            [st EXCEPT !.snaps[snapshot_dir(ctx)].dotgit = FALSE]
      [] step = "write-meta" ->
            [st EXCEPT !.snaps[snapshot_dir(ctx)].meta = TRUE]

\* the cache after a step has failed: copy_dir_all creates the directory and
\* may fail before ("copy") or after ("copy-part") it has copied entries; the
\* other steps leave the cache as it was
step_failed(st, step, fail, ctx) ==
    IF step = "copy" /\ fail = "copy-part"
    THEN [st EXCEPT !.snaps = snapshot_dir(ctx) :> [copied |-> FALSE, dotgit |-> TRUE,
                                                    commit |-> None, sparse |-> None,
                                                    meta |-> FALSE] @@ @]
    ELSE st

\* whether the plan makes the step fail
fails_at(step, fail) == fail = step \/ (step = "copy" /\ fail = "copy-part")

RECURSIVE materialize_from(_, _, _, _, _)
materialize_from(st, calls, steps, ctx, fail) ==
    IF steps = <<>> THEN [store |-> st, calls |-> calls, ok |-> TRUE]
    ELSE LET step == Head(steps)
         IN  IF fails_at(step, fail)
             THEN [store |-> step_failed(st, step, fail, ctx), calls |-> Append(calls, step),
                   ok |-> FALSE]
             ELSE materialize_from(step_done(st, step, ctx), Append(calls, step), Tail(steps),
                                   ctx, fail)

\* a faulty materialization: the steps are run whether the snapshot exists
\* or not
materialize_always(st, ctx, fail) ==
    materialize_from(st, <<>>, MaterializeSteps, ctx, fail)

\* get_dir_from_git, the branch `!commit_path.exists()`
materialize(st, ctx, fail) ==
    IF ctx.commit_path \in DOMAIN st.snaps THEN [store |-> st, calls |-> <<>>, ok |-> TRUE]
    ELSE materialize_from(st, <<>>, MaterializeSteps, ctx, fail)

\* a faulty commit_path: every call has a directory of its own
snapshot_path_fresh(dir_name, commit_short, paths) ==
    <<"c", dir_name, commit_short, hash_last_n(<<paths, Len(returned)>>)>>

\* commit_path: store_dir/c/<dir_name>/<commit_short>/<hash of the paths>
snapshot_path(dir_name, commit_short, paths) ==
    <<"c", dir_name, commit_short, hash_last_n(paths)>>

\* get_dir_from_git(address, state_path, store_dir) on the cache st, the
\* remote answering `git ls-remote` with inp.remote and `git rev-parse
\* --show-toplevel` with inp.root_dir: [store, calls, res]
get_dir_from_git_run(st, inp, fail) ==
    LET address == inp.address
        root == IF address.local THEN <<"rev-parse">> ELSE <<>>
        url == IF address.local THEN inp.root_dir ELSE address.url
        name == parse_url_name(url)
        dir_name == <<name, hash_last_n(url)>>
        cl == ensure_clone(st, dir_name, fail)
        ls == ls_remote([ok |-> fail # "ls-remote", out |-> inp.remote], address.git_ref)
        calls2 == root \o cl.calls \o <<"ls-remote">>
        commit == Unwrap(ls.val)
        commit_short == str_last_n(commit, ShortLen)
        paths == <<address.path \o inp.state_path>>
        commit_path == snapshot_path(dir_name, Unwrap(commit_short), paths)
        ctx == [dir_name |-> dir_name, commit_path |-> commit_path, commit |-> commit,
                paths |-> paths]
        mt == materialize(cl.store, ctx, fail)
    IN  IF address.local /\ fail = "rev-parse"
        THEN [store |-> st, calls |-> root, res |-> GitErr]
        ELSE IF ~cl.ok THEN [store |-> cl.store, calls |-> root \o cl.calls, res |-> GitErr]
        ELSE IF ~ls.ok THEN [store |-> cl.store, calls |-> calls2, res |-> GitErr]
        ELSE IF ~IsSome(commit_short)
             THEN [store |-> cl.store, calls |-> calls2, res |-> GitPanic]
        ELSE IF ~mt.ok THEN [store |-> mt.store, calls |-> calls2 \o mt.calls, res |-> GitErr]
        ELSE [store |-> mt.store,
              calls |-> calls2 \o mt.calls,
              res   |-> [ok    |-> TRUE,
                         val   |-> Some([name         |-> name,
                                         resolve_root |-> to_utf8_path(address.path, commit_path),
                                         state_path   |-> inp.state_path]),
                         panic |-> FALSE]]

----------------------------------------------------------------------------
(* The files of one directory, and load_dploy_config on them *)

\* a config that sets executable to tag and nothing else
ConfigOf(tag) ==
    [ok |-> TRUE, state |-> None,
     argument |-> Some([scope |-> None, executable |-> Some(Str(FALSE, <<tag>>)),
                        execution_path |-> None, envs |-> None])]

\* the text of a file is what serde_json::from_str and toml::from_str make of
\* it: Some(config) or None (a decode error).  An empty file is the TOML of
\* the default config and no JSON.
JsonText(c) == [json |-> Some(c), toml |-> None]
TomlText(c) == [json |-> None, toml |-> Some(c)]
EmptyText == [json |-> None, toml |-> Some(DefaultConfig)]
NoText == [json |-> None, toml |-> None]

Texts ==
    {JsonText(ConfigOf("j")), JsonText(ConfigOf("t")), TomlText(ConfigOf("j")),
     TomlText(ConfigOf("t")), EmptyText, NoText}

\* a path that exists: fs::read_to_string succeeds on it or fails
ConfigFiles == {[readable |-> FALSE, text |-> NoText]} \cup {[readable |-> TRUE, text |-> x] : x \in Texts}

\* a directory: for tidploy.json and tidploy.toml, the file if the path exists
Directories ==
    [json : {None} \cup {Some(f) : f \in ConfigFiles},
     toml : {None} \cup {Some(f) : f \in ConfigFiles}]

\* a faulty load_dploy_config: tidploy.toml is chosen when it exists
load_dploy_config_toml(dir) ==
    LET choose_json == ~IsSome(dir.toml) /\ IsSome(dir.json)
        file_path == IF choose_json THEN "tidploy.json" ELSE "tidploy.toml"
        file == IF choose_json THEN dir.json ELSE dir.toml
    IN  IF ~IsSome(file) THEN [cfg |-> DefaultConfig, read |-> None]
        ELSE IF ~Unwrap(file).readable THEN [cfg |-> BadConfig, read |-> Some(file_path)]
        ELSE LET dploy_config == IF choose_json THEN Unwrap(file).text.json
                                 ELSE Unwrap(file).text.toml
             IN  [cfg  |-> UnwrapOr(dploy_config, BadConfig),
                  read |-> Some(file_path)]

\* load_dploy_config on the files of the directory: the config returned
\* (BadConfig for Err) and the file read_to_string was called on
load_dploy_config_in(dir) ==
    LET choose_json == IsSome(dir.json)
        file_path == IF choose_json THEN "tidploy.json" ELSE "tidploy.toml"
        file == IF choose_json THEN dir.json ELSE dir.toml
    IN  IF ~IsSome(file) THEN [cfg |-> DefaultConfig, read |-> None]
        ELSE IF ~Unwrap(file).readable THEN [cfg |-> BadConfig, read |-> Some(file_path)]
        ELSE LET dploy_config == IF choose_json THEN Unwrap(file).text.json
                                 ELSE Unwrap(file).text.toml
             IN  [cfg  |-> UnwrapOr(dploy_config, BadConfig),
                  read |-> Some(file_path)]

InitLoad ==
    /\ \E dir \in Directories : input = [dir |-> dir]
    /\ pc = "load"
    /\ fs = [d \in {} |-> DefaultConfig]
    /\ addr_in = [root |-> LocalRoot(ResolveRoot), state_root |-> <<>>, state_path |-> <<>>]
    /\ state = [resolve_root |-> ResolveRoot, state_path |-> <<>>, state_root |-> <<>>,
                address |-> None]
    /\ i = 0
    /\ hops = <<>>
    /\ overflow = FALSE
    /\ declared = {}
    /\ out = NoOut
    /\ store = NoStore
    /\ returned = <<>>
    /\ running = NoRunning
    /\ keyring = NoKeyring
    /\ child = NoChild

\* load_dploy_config(config_dir_path)
LoadDployConfig ==
    /\ pc = "load"
    /\ out' = [op |-> "load", res |-> load_dploy_config_in(input.dir)]
    /\ pc' = "loaded"
    /\ UNCHANGED <<fs, addr_in, state, i, hops, overflow, declared, input, store,
                   returned, running, keyring, child>>

NextLoad == LoadDployConfig

SpecLoad == InitLoad /\ [][NextLoad]_vars

----------------------------------------------------------------------------
(* A config traversal on its own, from any start along any final path *)

\* the directories a traversal may start from
TraverseStarts == {ResolveRoot, <<"r", "a">>}

\* the final paths of a traversal: RelativePathBuf::from of any string
TraversePaths == {<<>>, <<"a", "b">>, <<"..">>, <<"..", "a", "b">>, <<"b", "..", "b">>}

InitTraverse ==
    /\ \E p \in Settings(MaxSet, ConfigSlots) : fs = DiskOf(p)
    /\ \E root \in TraverseStarts, sp \in TraversePaths :
          /\ state = [resolve_root |-> root, state_path |-> sp, state_root |-> <<>>,
                      address |-> None]
          /\ addr_in = [root |-> LocalRoot(root), state_root |-> <<>>, state_path |-> sp]
    /\ input = NoInput
    /\ pc = "done"
    /\ i = 0
    /\ hops = <<>>
    /\ overflow = FALSE
    /\ declared = {}
    /\ out = NoOut
    /\ store = NoStore
    /\ returned = <<>>
    /\ running = NoRunning
    /\ keyring = NoKeyring
    /\ child = NoChild

NextTraverse == TraverseArgConfigs

SpecTraverse == InitTraverse /\ [][NextTraverse]_vars

----------------------------------------------------------------------------
(* The inputs of a Git resolution, and get_dir_from_git as a state machine *)

TagRef == <<"refs", "tags", "v">>
PeeledRef == <<"refs", "tags", "v", "^{}">>
HeadRef == <<"refs", "heads", "v">>
RemoteRef == <<"refs", "remotes", "o", "v">>

\* the lines `git ls-remote` may print: sha and ref name, or one token only
OutLines ==
    {<<Sha("1"), TagRef>>, <<Sha("2"), PeeledRef>>, <<Sha("2"), HeadRef>>,
     <<Sha("1"), RemoteRef>>, <<Sha("1")>>}

\* the outputs of `git ls-remote`
Outputs == UNION {[1..n -> OutLines] : n \in 0..MaxLines}

\* the git_ref of an address: a ref name or a raw commit id
Patterns == {<<"v">>, Sha("3")}

\* the url of a repository, by segments and their parts between "."
RepoUrl == << <<"host">>, <<"repo", "git">> >>
\* what `git rev-parse --show-toplevel` prints for a local address
RootDir == << <<"home">>, <<"repo">> >>

\* the inputs of a resolution whose remote answers with one of `remotes`
GitInputs(remotes) ==
    [address    : [url : {RepoUrl}, git_ref : Patterns, path : {<<"p">>},
                   local : BOOLEAN],
     state_path : {<<"a">>},
     root_dir   : {RootDir},
     remote     : remotes]

\* the outputs of `git ls-remote` that resolutions are repeated with: nothing,
\* one ref, a tag and its peeled ref, a ref of the remote's remotes only, a
\* tag and a branch of different commits
GitRemotes ==
    {<<>>,
     << <<Sha("1"), TagRef>> >>,
     << <<Sha("1"), TagRef>>, <<Sha("2"), PeeledRef>> >>,
     << <<Sha("1"), RemoteRef>> >>,
     << <<Sha("1"), TagRef>>, <<Sha("2"), HeadRef>> >>}

\* the steps a plan may make fail
FailPlans ==
    {"none", "rev-parse", "clone", "sparse-init", "write-repo-meta", "ls-remote"}
        \cup Range(MaterializeSteps) \cup {"copy-part"}

\* nothing is cached, and the remote answers with one of `remotes`
InitGitOver(remotes) ==
    /\ input \in GitInputs(remotes)
    /\ pc = "git"
    /\ store = NoStore
    /\ returned = <<>>
    /\ running = NoRunning
    /\ keyring = NoKeyring
    /\ child = NoChild
    /\ out = NoOut
    /\ fs = [d \in {} |-> DefaultConfig]
    /\ addr_in = [root |-> LocalRoot(ResolveRoot), state_root |-> <<>>, state_path |-> <<>>]
    /\ state = [resolve_root |-> ResolveRoot, state_path |-> <<>>, state_root |-> <<>>,
                address |-> None]
    /\ i = 0
    /\ hops = <<>>
    /\ overflow = FALSE
    /\ declared = {}

\* the directory of the repo clone of the input, store_dir/<name>_<urlhash>
TargetDir ==
    LET url == IF input.address.local THEN input.root_dir ELSE input.address.url
    IN  <<parse_url_name(url), hash_last_n(url)>>

\* the commit the remote's refs resolve the input's git_ref to, if any, cut
\* to its last characters
CommitShort ==
    LET ls == ls_remote([ok |-> TRUE, out |-> input.remote], input.address.git_ref)
    IN  IF ls.ok THEN str_last_n(Unwrap(ls.val), ShortLen) ELSE None

\* the snapshot directory for the input's (repo, commit, paths)
CommitPath ==
    snapshot_path(TargetDir, Unwrap(CommitShort), <<input.address.path \o input.state_path>>)

\* one call of get_dir_from_git, some step of it failing or none; the cache
\* stays on the disk for the next call, the remote's refs stay as they are
GetDirFromGit ==
    /\ pc = "git"
    /\ Len(returned) < MaxCalls
    /\ \E fail \in FailPlans :
          LET r == get_dir_from_git_run(store, input, fail)
          IN  /\ store' = r.store
              /\ out' = [op |-> "git", res |-> r.res, calls |-> r.calls]
              /\ returned' = Append(returned, [res |-> r.res, calls |-> r.calls,
                                               before |-> store, after |-> r.store])
    /\ UNCHANGED <<fs, addr_in, pc, state, i, hops, overflow, declared, input, running,
                   keyring, child>>

InitGit == InitGitOver(GitRemotes)

NextGit == GetDirFromGit

SpecGit == InitGit /\ [][NextGit]_vars

\* ls_remote on its own: `git ls-remote` ran or could not be run
LsRemote ==
    /\ pc = "git"
    /\ \E ran \in BOOLEAN :
          out' = [op  |-> "ls_remote",
                  res |-> ls_remote([ok |-> ran, out |-> input.remote], input.address.git_ref),
                  ran |-> ran]
    /\ pc' = "listed"
    /\ UNCHANGED <<fs, addr_in, state, i, hops, overflow, declared, input, store,
                   returned, running, keyring, child>>

\* ls_remote, and the first call of get_dir_from_git, over every output of
\* `git ls-remote`
InitRefs == InitGitOver(Outputs)

NextRefs == LsRemote \/ (returned = <<>> /\ GetDirFromGit)

SpecRefs == InitRefs /\ [][NextRefs]_vars

----------------------------------------------------------------------------
(* Invocations of get_dir_from_git that run at once on one store_dir *)

\* an invocation: the steps it has yet to run (the first of them next), the
\* steps it ran, and what it returned, if it has
NewInvocation ==
    [todo  |-> (IF input.address.local THEN <<"rev-parse">> ELSE <<>>) \o <<"check-clone">>,
     calls |-> <<>>,
     res   |-> None]

\* the State get_dir_from_git returns for the input
OkState ==
    [ok    |-> TRUE,
     val   |-> Some([name         |-> TargetDir[1],
                     resolve_root |-> to_utf8_path(input.address.path, CommitPath),
                     state_path   |-> input.state_path]),
     panic |-> FALSE]

\* the next step of an invocation on the cache st, no lock held and nothing
\* but the step itself atomic: [store, inv].  copy_dir_all creates the
\* directory and then copies the entries; `git clone` fails on a
\* directory that exists; checkout, sparse-checkout and the removal of .git
\* fail in a directory whose .git is gone.
race_step(st, inv) ==
    LET step == Head(inv.todo)
        ctx == [dir_name |-> TargetDir, commit_path |-> CommitPath,
                commit |-> Unwrap(ls_remote([ok |-> TRUE, out |-> input.remote],
                                            input.address.git_ref).val),
                paths |-> <<input.address.path \o input.state_path>>]
        ran == Append(inv.calls, step)
        next(s2, todo) == [store |-> s2, inv |-> [todo |-> todo, calls |-> ran, res |-> None]]
        return(s2, res) == [store |-> s2, inv |-> [todo |-> <<>>, calls |-> ran, res |-> Some(res)]]
        rest == Tail(inv.todo)
    IN  CASE step = "rev-parse" -> next(st, rest)
          [] step = "check-clone" ->
                [store |-> st,
                 inv   |-> [inv EXCEPT !.todo =
                               IF TargetDir \in DOMAIN st.clones THEN <<"ls-remote">>
                               ELSE <<"clone", "sparse-init", "write-repo-meta", "ls-remote">>]]
          [] step = "clone" ->
                IF TargetDir \in DOMAIN st.clones THEN return(st, GitErr)
                ELSE next([st EXCEPT !.clones =
                              TargetDir :> [meta |-> FALSE, fetched |-> FALSE] @@ @], rest)
          [] step = "sparse-init" -> next(st, rest)
          [] step = "write-repo-meta" -> next([st EXCEPT !.clones[TargetDir].meta = TRUE], rest)
          [] step = "ls-remote" ->
                IF ~ls_remote([ok |-> TRUE, out |-> input.remote], input.address.git_ref).ok
                THEN return(st, GitErr)
                ELSE IF ~IsSome(CommitShort) THEN return(st, GitPanic)
                ELSE next(st, <<"check-snapshot">>)
          [] step = "check-snapshot" ->
                IF CommitPath \in DOMAIN st.snaps
                THEN [store |-> st, inv |-> [inv EXCEPT !.todo = <<>>, !.res = Some(OkState)]]
                ELSE [store |-> st, inv |-> [inv EXCEPT !.todo = MaterializeSteps]]
          [] step = "copy" ->
                next(step_failed(st, "copy", "copy-part", ctx), <<"copy-entries">> \o rest)
          [] step = "copy-entries" ->
                [store |-> step_done(st, "copy", ctx), inv |-> [inv EXCEPT !.todo = rest]]
          [] step \in {"checkout", "sparse-checkout", "remove-git"}
                /\ ~(CommitPath \in DOMAIN st.snaps /\ st.snaps[CommitPath].dotgit) ->
                return(st, GitErr)
          [] step = "write-meta" /\ CommitPath \notin DOMAIN st.snaps -> return(st, GitErr)
          [] OTHER ->
                IF rest = <<>> THEN return(step_done(st, step, ctx), OkState)
                ELSE next(step_done(st, step, ctx), rest)

\* get_dir_from_git is called once more, while the earlier calls run
Invoke ==
    /\ pc = "git"
    /\ Len(running) < MaxInvocations
    /\ running' = Append(running, NewInvocation)
    /\ UNCHANGED <<fs, addr_in, pc, state, i, hops, overflow, declared, input, out, store,
                   returned, keyring, child>>

\* one of the invocations takes its next step
RaceStep ==
    /\ pc = "git"
    /\ \E p \in DOMAIN running :
          /\ running[p].todo # <<>>
          /\ LET r == race_step(store, running[p])
             IN  /\ store' = r.store
                 /\ running' = [running EXCEPT ![p] = r.inv]
    /\ UNCHANGED <<fs, addr_in, pc, state, i, hops, overflow, declared, input, out, returned,
                   keyring, child>>

\* nothing cached, and a remote with one tag
InitRace == InitGitOver({<< <<Sha("1"), TagRef>> >>})

NextRace == Invoke \/ RaceStep

SpecRace == InitRace /\ [][NextRace]_vars

----------------------------------------------------------------------------
(* The credential store (secrets.rs) and run_unit_input (run.rs) *)

\* key_from_scope: format!("{}::{}::{}:{}", name, sub, hash, key), the
\* pieces of the string in order
key_from_scope(scope, key, require_hash_match) ==
    LET hash == IF require_hash_match THEN scope.hash ELSE "tidploy_default_hash"
    IN  <<scope.name, "::", scope.sub, "::", hash, ":", key>>

\* get_keyring_secret on the store ring: Ok(None) for NoEntry, Err for any
\* other error of the backend (locked)
get_keyring_secret(ring, key, service, locked) ==
    IF locked THEN [ok |-> FALSE, val |-> None]
    ELSE IF <<service, key>> \in DOMAIN ring
         THEN [ok |-> TRUE, val |-> Some(ring[<<service, key>>])]
         ELSE [ok |-> TRUE, val |-> None]

\* set_keyring_secret: the store afterwards
set_keyring_secret(ring, secret, key, service) ==
    [e \in DOMAIN ring \cup {<<service, key>>} |->
        IF e = <<service, key>> THEN secret ELSE ring[e]]

\* get_secret: Ok(password), Err(NoPassword(store_key)) or
\* Err(SecretKeyringError)
get_secret(ring, scope, key, locked) ==
    LET store_key == key_from_scope(scope, key, TRUE)
        got == get_keyring_secret(ring, store_key, scope.service, locked)
    IN  IF ~got.ok THEN [ok |-> FALSE, val |-> None, err |-> <<"Keyring", store_key>>]
        ELSE IF IsSome(got.val) THEN [ok |-> TRUE, val |-> got.val, err |-> <<>>]
        ELSE [ok |-> FALSE, val |-> None, err |-> <<"NoPassword", store_key>>]

\* a faulty secret_prompt: the password is saved under the store key only
secret_prompt_single(ring, scope, key, password, fail) ==
    LET store_key == key_from_scope(scope, key, TRUE)
    IN  IF fail = "first" THEN [ok |-> FALSE, val |-> None, ring |-> ring]
        ELSE [ok |-> TRUE, val |-> Some(store_key),
              ring |-> set_keyring_secret(ring, password, store_key, scope.service)]

\* secret_prompt with the password given: the password is saved under the
\* store key and under the key of the default hash; fail is the
\* set_password that fails, if any.  [ok, val: the store key, ring]
secret_prompt(ring, scope, key, password, fail) ==
    LET store_key == key_from_scope(scope, key, TRUE)
        first == set_keyring_secret(ring, password, store_key, scope.service)
        store_key_default_hash == key_from_scope(scope, key, FALSE)
    IN  IF fail = "first" THEN [ok |-> FALSE, val |-> None, ring |-> ring]
        ELSE IF fail = "second" THEN [ok |-> FALSE, val |-> None, ring |-> first]
        ELSE [ok |-> TRUE, val |-> Some(store_key),
              ring |-> set_keyring_secret(first, password, store_key_default_hash,
                                          scope.service)]

\* a faulty secret_vars_to_envs: a variable without an entry is left out
RECURSIVE secret_vars_to_envs_skip(_, _, _, _, _)
secret_vars_to_envs_skip(ring, scope, config_vars, locked, envs) ==
    IF config_vars = <<>> THEN [ok |-> TRUE, val |-> Some(envs)]
    ELSE LET e == Head(config_vars)
             pass == get_secret(ring, scope, e.key, locked)
         IN  secret_vars_to_envs_skip(ring, scope, Tail(config_vars), locked,
                 IF ~pass.ok THEN envs
                 ELSE [n \in DOMAIN envs \cup {e.env_name} |->
                          IF n = e.env_name THEN Unwrap(pass.val) ELSE envs[n]])

\* secret_vars_to_envs, envs the map so far: the first get_secret that fails
\* ends it; insert replaces the entry of an env_name
RECURSIVE secret_vars_to_envs(_, _, _, _, _)
secret_vars_to_envs(ring, scope, config_vars, locked, envs) ==
    IF config_vars = <<>> THEN [ok |-> TRUE, val |-> Some(envs)]
    ELSE LET e == Head(config_vars)
             pass == get_secret(ring, scope, e.key, locked)
         IN  IF ~pass.ok THEN [ok |-> FALSE, val |-> None]
             ELSE secret_vars_to_envs(ring, scope, Tail(config_vars), locked,
                      [n \in DOMAIN envs \cup {e.env_name} |->
                          IF n = e.env_name THEN Unwrap(pass.val) ELSE envs[n]])

\* run_unit_input: the entrypoint is spawned with the env map
\* secret_vars_to_envs returned
run_unit_input(ring, run_resolved, locked) ==
    LET secret_vars == secret_vars_to_envs(ring, run_resolved.scope, run_resolved.envs,
                                           locked, [n \in {} |-> ""])
    IN  [ok |-> secret_vars.ok, envs |-> secret_vars.val, spawned |-> secret_vars.ok]

----------------------------------------------------------------------------
(* The secret command and the run command on one credential store *)

\* the keys and the passwords of the secret command
SecretKeys == {"k1", "k2"}
Passwords == {"abc", "xyz"}

\* the scope of a command without scope arguments in ResolveRoot
PlainScope ==
    [service |-> "tidploy", name |-> "r", sub |-> "tidploy_root",
     hash |-> "tidploy_default_hash"]

\* the credential stores a command may find: empty, or holding k1, or k1 and k2
Keyrings ==
    LET at(k) == <<PlainScope.service, key_from_scope(PlainScope, k, TRUE)>>
    IN  {NoKeyring,
         [e \in {at("k1")} |-> "pre"],
         [e \in {at("k1"), at("k2")} |-> "pre"]}

\* what the config file of ResolveRoot may set, and the command line of run
SecretFileSlots == {"cfg1"} \X {"name", "require_hash", "envs", "bad"}
RunSecretSlots == {"cli"} \X {"envs", "service", "name", "sub", "require_hash"}

InitSecrets ==
    /\ \E p \in Settings(1, SecretFileSlots) : fs = DiskOf(p)
    /\ state = [resolve_root |-> ResolveRoot, state_path |-> <<>>, state_root |-> <<>>,
                address |-> None]
    /\ input = NoInput
    /\ addr_in = [root |-> LocalRoot(ResolveRoot), state_root |-> <<>>, state_path |-> <<>>]
    /\ pc = "done"
    /\ i = 0
    /\ hops = <<>>
    /\ overflow = FALSE
    /\ declared = {}
    /\ out = NoOut
    /\ store = NoStore
    /\ returned = <<>>
    /\ running = NoRunning
    /\ keyring \in Keyrings
    /\ child = NoChild

\* secret_command with the password given: create_resolve_state,
\* merge_env_config and resolve, then secret_prompt
SecretSet ==
    /\ pc = "done"
    /\ \E q \in Settings(1, SecretSlots), key \in SecretKeys, password \in Passwords,
          fail \in {"none", "first", "second"} :
          LET rs == create_resolve_state(state)
              resolved == IF rs.ok
                          THEN merge_and_resolve(fs, EnvOf(q), Unwrap(rs.val),
                                                 [key |-> key,
                                                  scope_args |-> CliOf(q).scope_args])
                          ELSE [ok |-> FALSE, val |-> None]
              set == IF resolved.ok
                     THEN secret_prompt(keyring, Unwrap(resolved.val).scope, key, password, fail)
                     ELSE [ok |-> FALSE, val |-> None, ring |-> keyring]
          IN  /\ input' = [cli |-> CliOf(q), env |-> EnvOf(q)]
              /\ keyring' = set.ring
              /\ out' = [op |-> "secret", res |-> [ok |-> set.ok, val |-> set.val],
                         resolved |-> resolved.val, password |-> password]
    /\ pc' = "set"
    /\ UNCHANGED <<fs, addr_in, state, i, hops, overflow, declared, store,
                   returned, running, child>>

\* run_command_input up to the spawn: create_resolve_state, resolve_run,
\* then run_unit_input; locked is the backend of the store failing
RunUnitInput ==
    /\ pc \in {"done", "set"}
    /\ \E q \in Settings(2, RunSecretSlots), locked \in BOOLEAN :
          LET rs == create_resolve_state(state)
              resolved == IF rs.ok
                          THEN resolve_run(fs, EnvOf(q), Unwrap(rs.val),
                                           cli_run_args(CliOf(q), state.resolve_root))
                          ELSE [ok |-> FALSE, val |-> None]
              ran == IF resolved.ok
                     THEN run_unit_input(keyring, Unwrap(resolved.val), locked)
                     ELSE [ok |-> FALSE, envs |-> None, spawned |-> FALSE]
          IN  /\ input' = [cli |-> CliOf(q), env |-> EnvOf(q)]
              /\ out' = [op |-> "run_unit", res |-> ran, resolved |-> resolved.val,
                         locked |-> locked]
    /\ pc' = "ran"
    /\ UNCHANGED <<fs, addr_in, state, i, hops, overflow, declared, store,
                   returned, running, keyring, child>>

NextSecrets == SecretSet \/ RunUnitInput

SpecSecrets == InitSecrets /\ [][NextSecrets]_vars

----------------------------------------------------------------------------
(* run_entrypoint (process.rs): the child, its two pipes, the read loop *)

\* the size of buffer_out and of buffer_err
BufLen == 32

\* the programs of the child: write k puts the byte k on stdout or on
\* stderr; the child exits after its last write
Programs == UNION {[1..n -> {"out", "err"}] : n \in 0..MaxWrites}

\* the first n elements of a sequence, and what follows them
take(s, n) == SubSeq(s, 1, IF n < Len(s) THEN n ELSE Len(s))
drop(s, n) == SubSeq(s, (IF n < Len(s) THEN n ELSE Len(s)) + 1, Len(s))

\* the state after spawn: nothing written, the parent before its first read
\* of stdout
InitEntry ==
    /\ fs = [d \in {} |-> DefaultConfig]
    /\ state = [resolve_root |-> ResolveRoot, state_path |-> <<>>, state_root |-> <<>>,
                address |-> None]
    /\ input = NoInput
    /\ addr_in = [root |-> LocalRoot(ResolveRoot), state_root |-> <<>>, state_path |-> <<>>]
    /\ pc = "done"
    /\ i = 0
    /\ hops = <<>>
    /\ overflow = FALSE
    /\ declared = {}
    /\ out = NoOut
    /\ store = NoStore
    /\ returned = <<>>
    /\ running = NoRunning
    /\ keyring = NoKeyring
    /\ \E prog \in Programs :
          child = [at |-> "read_out", prog |-> prog, next |-> 1, exited |-> FALSE,
                   pipe_out |-> <<>>, pipe_err |-> <<>>, wrote |-> <<>>,
                   bytes_read_out |-> <<>>, out |-> <<>>]

\* the child performs its next write
ChildWrite ==
    /\ child.at # "none"
    /\ child.next <= Len(child.prog)
    /\ child' = [child EXCEPT
                    !.next = @ + 1,
                    !.wrote = Append(@, child.next),
                    !.pipe_out = IF child.prog[child.next] = "out"
                                 THEN Append(@, child.next) ELSE @,
                    !.pipe_err = IF child.prog[child.next] = "err"
                                 THEN Append(@, child.next) ELSE @]
    /\ UNCHANGED <<fs, addr_in, pc, state, i, hops, overflow, declared, input, out,
                   store, returned, running, keyring>>

\* the child exits after its last write; its ends of the pipes close
ChildExit ==
    /\ child.at # "none"
    /\ child.next > Len(child.prog)
    /\ ~child.exited
    /\ child' = [child EXCEPT !.exited = TRUE]
    /\ UNCHANGED <<fs, addr_in, pc, state, i, hops, overflow, declared, input, out,
                   store, returned, running, keyring>>

\* reader.read(&mut buffer_out): blocks until stdout has bytes or is at
\* end of file
ReadOut ==
    /\ child.at = "read_out"
    /\ child.pipe_out # <<>> \/ child.exited
    /\ child' = [child EXCEPT
                    !.at = "read_err",
                    !.bytes_read_out = take(child.pipe_out, BufLen),
                    !.pipe_out = drop(@, BufLen)]
    /\ UNCHANGED <<fs, addr_in, pc, state, i, hops, overflow, declared, input, out,
                   store, returned, running, keyring>>

\* reader_err.read(&mut buffer_err), blocking alike, and the rest of the
\* loop body: the bytes of stdout, then those of stderr are pushed on out;
\* when both reads gave nothing, try_wait follows
ReadErr ==
    /\ child.at = "read_err"
    /\ child.pipe_err # <<>> \/ child.exited
    /\ LET bytes_read_err == take(child.pipe_err, BufLen)
       IN  child' = [child EXCEPT
                        !.at = IF child.bytes_read_out = <<>> /\ bytes_read_err = <<>>
                               THEN "try_wait" ELSE "read_out",
                        !.pipe_err = drop(@, BufLen),
                        !.bytes_read_out = <<>>,
                        !.out = @ \o child.bytes_read_out \o bytes_read_err]
    /\ UNCHANGED <<fs, addr_in, pc, state, i, hops, overflow, declared, input, out,
                   store, returned, running, keyring>>

\* try_wait: the loop breaks when the child has exited
TryWait ==
    /\ child.at = "try_wait"
    /\ child' = [child EXCEPT !.at = IF child.exited THEN "returned" ELSE "read_out"]
    /\ UNCHANGED <<fs, addr_in, pc, state, i, hops, overflow, declared, input, out,
                   store, returned, running, keyring>>

NextEntry == ChildWrite \/ ChildExit \/ ReadOut \/ ReadErr \/ TryWait

SpecEntry == InitEntry /\ [][NextEntry]_vars

----------------------------------------------------------------------------
(* Address construction and create_resolve_state as a state machine *)

\* the current directory, the url `git config --get remote.origin.url`
\* prints there (as the path Utf8PathBuf::from makes of it), and the root
\* directory of the Git repository that contains the current directory
CurrentDirs == {<<"home", "repo", "w">>, <<>>}
OriginUrl == <<"host", "repo.git">>
RepoRootDir == <<"home", "repo">>

\* the resolve_root of a LocalAddressIn: unset, "/", "/a", "b", "..", "b/.."
ResolveRootsIn ==
    {None, Some(Str(TRUE, <<>>)), Some(Str(TRUE, <<"a">>)), Some(Str(FALSE, <<"b">>)),
     Some(Str(FALSE, <<"..">>)), Some(Str(FALSE, <<"b", "..">>))}

\* AddressIn: LocalAddressIn or GitAddressIn
AddressIns ==
    [kind : {"local"}, resolve_root : ResolveRootsIn,
     state_path : {None, Some(Str(FALSE, <<"p">>))},
     state_root : {None, Some(Str(FALSE, <<"s">>))},
     url : {None}, git_ref : {None}, target_resolve_root : {None}]
    \cup
    [kind : {"git"}, resolve_root : {None},
     state_path : {None}, state_root : {None, Some(Str(FALSE, <<"s">>))},
     url : {None, Some(<<"host", "other.git">>)}, git_ref : {None, Some("v")},
     target_resolve_root : {None, Some(Str(FALSE, <<"t">>))}]

\* Address::from_addr_in(value, infer_ctx), env giving what current_dir()
\* returns (None: an error) and what git_root_origin_url returns for it
\* (None: git fails): Ok(Address) or Err
from_addr_in(value, infer_ctx, env) ==
    LET rel(o) == RelFrom(UnwrapOr(o, Str(FALSE, <<>>)))
        err == [ok |-> FALSE, val |-> None]
        ok(root) == [ok |-> TRUE,
                     val |-> Some([root       |-> root,
                                   state_path |-> rel(value.state_path),
                                   state_root |-> rel(value.state_root)])]
    IN  IF value.kind = "git"
        THEN LET git(url) == ok(GitRoot(url, UnwrapOr(value.git_ref, "HEAD"),
                                        rel(value.target_resolve_root)))
             IN  IF IsSome(value.url) THEN git(Unwrap(value.url))
                 ELSE IF ~IsSome(env.current_dir) THEN err
                 ELSE IF infer_ctx = "Cwd" THEN git(Unwrap(env.current_dir))
                 ELSE IF ~IsSome(env.origin_url) THEN err
                 ELSE git(Unwrap(env.origin_url))
        ELSE LET resolve_root == UnwrapOr(value.resolve_root, Str(FALSE, <<>>))
             IN  IF resolve_root.abs THEN ok(LocalRoot(resolve_root.comps))
                 ELSE IF ~IsSome(env.current_dir) THEN err
                 ELSE IF infer_ctx = "Cwd"
                      THEN ok(LocalRoot(to_utf8_path(resolve_root.comps,
                                                     Unwrap(env.current_dir))))
                 ELSE IF ~IsSome(env.origin_url) THEN err
                 ELSE ok(LocalRoot(to_utf8_path(resolve_root.comps, Unwrap(env.origin_url))))

\* create_resolve_state(addr_in, infer_ctx, opt) on the disk `disk`, when
\* converge_state ends in its first pass: the address is constructed and
\* resolved, the state converged, and the ResolveState derived from it
create_resolve_state_in(value, infer_ctx, env, disk) ==
    LET address == from_addr_in(value, infer_ctx, env)
        r == converge_pass(resolve_address(Unwrap(address.val)), disk)
    IN  IF ~address.ok \/ r.kind = "err" THEN [ok |-> FALSE, val |-> None, state |-> None]
        ELSE [ok    |-> create_resolve_state(r.state).ok,
              val   |-> create_resolve_state(r.state).val,
              state |-> Some(r.state)]

\* no config files on the disk; an AddressIn, a context and a current
\* directory, inside a Git repository with an origin or not
InitAddr ==
    /\ input \in [addr_in : AddressIns, infer_ctx : {"Cwd", "Git"},
                  env : [current_dir : {None} \cup {Some(d) : d \in CurrentDirs},
                         origin_url : {None, Some(OriginUrl)}]]
    /\ pc = "addr"
    /\ fs = [d \in {} |-> DefaultConfig]
    /\ addr_in = [root |-> LocalRoot(ResolveRoot), state_root |-> <<>>, state_path |-> <<>>]
    /\ state = [resolve_root |-> ResolveRoot, state_path |-> <<>>, state_root |-> <<>>,
                address |-> None]
    /\ i = 0
    /\ hops = <<>>
    /\ overflow = FALSE
    /\ declared = {}
    /\ out = NoOut
    /\ store = NoStore
    /\ returned = <<>>
    /\ running = NoRunning
    /\ keyring = NoKeyring
    /\ child = NoChild

\* Address::from_addr_in on its own
FromAddrIn ==
    /\ pc = "addr"
    /\ out' = [op  |-> "from_addr_in",
               res |-> from_addr_in(input.addr_in, input.infer_ctx, input.env)]
    /\ pc' = "constructed"
    /\ UNCHANGED <<fs, addr_in, state, i, hops, overflow, declared, input, store,
                   returned, running, keyring, child>>

\* create_resolve_state
CreateResolveState ==
    /\ pc = "addr"
    /\ LET r == create_resolve_state_in(input.addr_in, input.infer_ctx, input.env, fs)
       IN  /\ out' = [op |-> "create_resolve_state", res |-> [ok |-> r.ok, val |-> r.val],
                       state |-> r.state]
           /\ state' = UnwrapOr(r.state, state)
    /\ pc' = "resolved"
    /\ UNCHANGED <<fs, addr_in, i, hops, overflow, declared, input, store,
                   returned, running, keyring, child>>

NextAddr == FromAddrIn \/ CreateResolveState

SpecAddr == InitAddr /\ [][NextAddr]_vars

----------------------------------------------------------------------------
(* Claims about converge_address and converge_state *)

HopAddrs == {hops[k].addr : k \in DOMAIN hops}

\* C1: converge_address terminates on every input: a cycle of redirects ends
\* in Ok or Err.  (A run that stays inside one call of converge_state for
\* ever is C2's case and is set aside here.)
C1_ConvergeAddressTerminates ==
    <>(pc \in {"done", "error"}) \/ <>[](pc = "converge")

\* C2: every call of converge_state returns: the loop over the passes does
\* not go on for ever
C2_ConvergeStateTerminates ==
    (pc = "converge") ~> (pc # "converge")

C4_ChainInOrder ==
    (pc = "done" /\ ~overflow) =>
        /\ hops[1].addr = addr_in
        /\ \A k \in 1..(Len(hops) - 1) : hops[k].pending = Some(hops[k + 1].addr)
        /\ hops[Len(hops)].pending = None
        /\ \A j, k \in DOMAIN hops : j # k => hops[j].addr # hops[k].addr
        /\ state.resolve_root = resolve_address(hops[Len(hops)].addr).resolve_root

\* C4 witness: a chain A0 -> A1 -> A2 resolved to the end
C4_Witness ==
    pc = "done" /\ ~overflow /\ Len(hops) = 3

\* C5: the state converge_state returns is stable: another call on it, the
\* disk unchanged, ends in its first pass, reads no file that was not read
\* before, and returns the same resolve_root, normalized state_root,
\* normalized state_path and address
C5_ConvergeStateIdempotent ==
    pc = "check" =>
        LET r == converge_pass(state, fs)
        IN  /\ Window(state) \subseteq DOMAIN fs
            /\ r.kind \in {"absent", "stable"}
            /\ r.state.resolve_root = state.resolve_root
            /\ Normalize(r.state.state_root) = Normalize(state.state_root)
            /\ Normalize(r.state.state_path) = Normalize(state.state_path)
            /\ r.state.address = state.address

\* C5 witness: converge_state returned after a pass that moved the window,
\* with an address pending
C5_Witness ==
    pc = "check" /\ i >= 1 /\ IsSome(state.address)

----------------------------------------------------------------------------
(* Claims about argument resolution and config traversal *)

ScopeFields == {"service", "name", "sub", "require_hash"}
PathFields == {"executable", "execution_path"}

\* the directories a traversal from ResolveRoot along state.state_path is to
\* visit: ResolveRoot, then the prefixes of the normalized path
ExpectedDirs ==
    LET n == Normalize(state.state_path)
    IN  [k \in 1..(Len(n) + 1) |-> ResolveRoot \o SubSeq(n, 1, k - 1)]

VisitedCfgs == {src \in DOMAIN ConfigDirs : ConfigDirs[src] \in Range(ExpectedDirs)}

\* what a source gives a field, as written on the command line, in the
\* environment or in the config file of a directory
Given(src, field) ==
    IF src = "cli"
    THEN IF field \in ScopeFields THEN input.cli.scope_args[field]
         ELSE IF field = "envs"
              THEN IF input.cli.envs = <<>> THEN None ELSE Some(input.cli.envs)
              ELSE input.cli[field]
    ELSE IF src = "env"
    THEN CASE field = "executable"     -> input.env.TIDPLOY_RUN_EXECUTABLE
           [] field = "execution_path" -> input.env.TIDPLOY_RUN_EXECUTION_PATH
           [] field = "service"        -> input.env.TIDPLOY_SECRET_SERVICE
           [] field = "name"           -> input.env.TIDPLOY_SECRET_SCOPE_NAME
           [] field = "sub"            -> input.env.TIDPLOY_SECRET_SCOPE_SUB
           [] field = "require_hash"   -> input.env.TIDPLOY_SECRET_REQUIRE_HASH
           [] OTHER                    -> None
    ELSE LET dir == ConfigDirs[src]
         IN  IF dir \notin DOMAIN fs \/ ~fs[dir].ok \/ ~IsSome(fs[dir].argument) THEN None
             ELSE LET arg == Unwrap(fs[dir].argument)
                  IN  IF field \in ScopeFields
                      THEN IF IsSome(arg.scope) THEN Unwrap(arg.scope)[field] ELSE None
                      ELSE arg[field]

\* the visited directories whose config sets the field, and the deepest of them
SettingCfgs(field) == {src \in VisitedCfgs : IsSome(Given(src, field))}
Deepest(cfgs) ==
    CHOOSE src \in cfgs : \A other \in cfgs : Len(ConfigDirs[other]) <= Len(ConfigDirs[src])
DeepestCfg(field) == Deepest(SettingCfgs(field))

\* the source whose value a field is to take: CLI, else ENV, else the deepest
\* config that sets it, else the default
Winner(field) ==
    IF IsSome(Given("cli", field)) THEN "cli"
    ELSE IF IsSome(Given("env", field)) THEN "env"
    ELSE LET cfgs == SettingCfgs(field)
         IN  IF cfgs # {} THEN Deepest(cfgs) ELSE "default"

DefaultOf == [service |-> "tidploy", name |-> "r", sub |-> "tidploy_root"]

\* require_hash as the winning source gives it
RequireHash ==
    LET w == Winner("require_hash")
    IN  IF w = "default" THEN FALSE
        ELSE IF w = "env" THEN Unwrap(Given(w, "require_hash")) # ""
        ELSE Unwrap(Given(w, "require_hash"))

Resolved == out.op \in {"run", "secret"} /\ out.res.ok
Ran == out.op = "run" /\ out.res.ok

\* C6: every scalar run field and every scope field takes the value of the
\* CLI if the CLI sets it, else of the environment, else of the merged
\* config, else the default (each source's values carry the source's tag)
C6_Precedence ==
    Resolved =>
        LET r == Unwrap(out.res.val)
        IN  /\ \A f \in {"service", "name", "sub"} :
                   LET w == Winner(f)
                   IN  r.scope[f] = IF w = "default" THEN DefaultOf[f] ELSE Tag[w]
            /\ r.scope.hash = IF RequireHash THEN "todo_hash" ELSE "tidploy_default_hash"
            /\ out.op = "run" =>
                   \A f \in PathFields :
                       LET w == Winner(f)
                       IN  w # "default" => r[f][Len(r[f])] = Tag[w]

\* C6 witness: CLI, environment and a visited config all set executable
C6_Witness ==
    /\ Ran
    /\ IsSome(Given("cli", "executable"))
    /\ IsSome(Given("env", "executable"))
    /\ SettingCfgs("executable") # {}

\* the keys of a list of ConfigVar, and the env_name of the last entry of a key
KeysOf(list) == {list[k].key : k \in DOMAIN list}
LastOf(list, key) ==
    list[CHOOSE k \in DOMAIN list :
            list[k].key = key /\ \A j \in (k + 1)..Len(list) : list[j].key # key].env_name

\* the envs list a source gives (the environment gives none)
EnvsOf(src) == UnwrapOr(Given(src, "envs"), <<>>)

\* the sources of envs, highest precedence first among those that have key
EnvsWinner(key) ==
    IF key \in KeysOf(EnvsOf("cli")) THEN "cli"
    ELSE CHOOSE src \in VisitedCfgs :
            /\ key \in KeysOf(EnvsOf(src))
            /\ \A other \in VisitedCfgs :
                   key \in KeysOf(EnvsOf(other)) => Len(ConfigDirs[other]) <= Len(ConfigDirs[src])

C8_JoinedOntoResolveRoot ==
    Ran =>
        \A f \in PathFields :
            LET w == Winner(f)
            IN  w # "default" =>
                    Unwrap(out.res.val)[f] = state.resolve_root \o Unwrap(Given(w, f)).comps

\* C9: with execution_path unset by every source the resolved execution_path
\* is resolve_root; with executable unset by every source the resolved
\* executable is entrypoint.sh in the resolved execution_path
C9_Defaults ==
    Ran =>
        LET r == Unwrap(out.res.val)
        IN  /\ Winner("execution_path") = "default" => r.execution_path = state.resolve_root
            /\ Winner("executable") = "default" =>
                   r.executable = Append(r.execution_path, "entrypoint.sh")

\* C9 witness: executable unset, execution_path set by some source
C9_Witness ==
    /\ Ran
    /\ Winner("executable") = "default"
    /\ Winner("execution_path") # "default"
    /\ Unwrap(out.res.val).execution_path # state.resolve_root

\* a field of the merged config traverse_arg_configs returned
MergedField(field) ==
    IF ~IsSome(out.res.val) THEN None
    ELSE LET arg == Unwrap(out.res.val)
         IN  IF field \in ScopeFields
             THEN IF IsSome(arg.scope) THEN Unwrap(arg.scope)[field] ELSE None
             ELSE arg[field]

\* the expected directories up to the first one whose file does not load
ReadDirs ==
    LET bad == {k \in DOMAIN ExpectedDirs :
                   ExpectedDirs[k] \in DOMAIN fs /\ ~fs[ExpectedDirs[k]].ok}
    IN  IF bad = {} THEN ExpectedDirs
        ELSE SubSeq(ExpectedDirs, 1, CHOOSE k \in bad : \A j \in bad : k <= j)

\* C10: the traversal visits start and then the prefixes of the normalized
\* final path, shallowest first, and each scalar field of its result is that
\* of the deepest visited config that sets it
C10_DeepestWins ==
    out.op = "traverse" =>
        /\ out.res.visited = ReadDirs
        /\ out.res.ok <=> \A d \in Range(ExpectedDirs) : d \in DOMAIN fs => fs[d].ok
        /\ out.res.ok =>
               \A f \in PathFields \cup ScopeFields :
                   MergedField(f) = IF SettingCfgs(f) = {} THEN None
                                    ELSE Given(DeepestCfg(f), f)

\* C10 witness: the configs at start, start/a and start/a/b set the same
\* field and all three are visited
C10_Witness ==
    /\ out.op = "traverse"
    /\ out.res.ok
    /\ SettingCfgs("executable") = {"cfg1", "cfg2", "cfg3"}

----------------------------------------------------------------------------
(* Claims about config loading and traversal *)

\* directory d is base or lies below it
IsUnder(base, d) == Len(d) >= Len(base) /\ SubSeq(d, 1, Len(base)) = base

\* C11: every directory from which a traversal loads a config file is start
\* or a descendant of start, also for a final path that holds ".."
C11_NoReadOutsideStart ==
    out.op = "traverse" =>
        \A k \in DOMAIN out.res.visited :
            Canon(out.res.visited[k]) \in DOMAIN fs =>
                IsUnder(Canon(state.resolve_root), Canon(out.res.visited[k]))

\* C12: load_dploy_config reads tidploy.json alone when it exists (the
\* result is what the directory without tidploy.toml gives), else
\* tidploy.toml; with neither file it returns the default config, no error
C12_JsonElseToml ==
    out.op = "load" =>
        LET dir == input.dir
            r == out.res
        IN  /\ IsSome(dir.json) =>
                  /\ r.read = Some("tidploy.json")
                  /\ r = load_dploy_config_in([json |-> dir.json, toml |-> None])
                  /\ r.cfg = IF Unwrap(dir.json).readable
                             THEN UnwrapOr(Unwrap(dir.json).text.json, BadConfig)
                             ELSE BadConfig
            /\ ~IsSome(dir.json) /\ IsSome(dir.toml) =>
                  /\ r.read = Some("tidploy.toml")
                  /\ r.cfg = IF Unwrap(dir.toml).readable
                             THEN UnwrapOr(Unwrap(dir.toml).text.toml, BadConfig)
                             ELSE BadConfig
            /\ ~IsSome(dir.json) /\ ~IsSome(dir.toml) =>
                  r = [cfg |-> DefaultConfig, read |-> None] /\ r.cfg.ok

\* C12 witness: both files exist and hold different configs, and the load
\* returned the one of tidploy.json
C12_Witness ==
    /\ out.op = "load"
    /\ IsSome(input.dir.json) /\ IsSome(input.dir.toml)
    /\ Unwrap(input.dir.toml).readable
    /\ Unwrap(input.dir.toml).text.toml = Some(ConfigOf("t"))
    /\ out.res.cfg = ConfigOf("j")

\* the config of some directory on the traversal path of the command fails
\* to load
BadOnPath ==
    \E k \in DOMAIN ExpectedDirs :
        ExpectedDirs[k] \in DOMAIN fs /\ ~fs[ExpectedDirs[k]].ok

\* C13: when the config of a directory on the path fails to load, the
\* traversal returns the error and no config, having loaded nothing deeper
\* than the failing directory; converge_state, resolve_run and the secret's
\* resolution fail and return no state and no arguments
C13_FirstErrorPropagates ==
    BadOnPath =>
        /\ out.op \in {"traverse", "run", "secret", "converge"} =>
               ~out.res.ok /\ out.res.val = None
        /\ out.op = "traverse" =>
               LET last == out.res.visited[Len(out.res.visited)]
               IN  /\ ~fs[last].ok
                   /\ \A k \in 1..(Len(out.res.visited) - 1) :
                          out.res.visited[k] \in DOMAIN fs => fs[out.res.visited[k]].ok
                   /\ out.res.visited = SubSeq(ExpectedDirs, 1, Len(out.res.visited))

\* C13 witness: the traversal failed at start/a after merging the config of
\* start, with a config file in start/a/b on its path
C13_Witness ==
    /\ out.op = "traverse"
    /\ ~out.res.ok
    /\ Len(out.res.visited) = 2
    /\ Len(ExpectedDirs) = 3
    /\ ResolveRoot \in DOMAIN fs
    /\ ExpectedDirs[3] \in DOMAIN fs

----------------------------------------------------------------------------
(* Claims about the Git cache *)

\* the calls of get_dir_from_git so far that returned Ok
OkCalls == {k \in DOMAIN returned : returned[k].res.ok}

\* C14: resolutions of the same Git address against the same store_dir, the
\* remote's refs unchanged, return the same resolve_root every time
C14_SameResolveRoot ==
    \A j, k \in OkCalls :
        Unwrap(returned[j].res.val).resolve_root = Unwrap(returned[k].res.val).resolve_root

\* C14 witness: two resolutions returned Ok, the first having materialized
\* the snapshot and the second having found it
C14_Witness ==
    /\ Len(returned) = 2
    /\ OkCalls = {1, 2}
    /\ "fetch" \in Range(returned[1].calls)
    /\ "fetch" \notin Range(returned[2].calls)

\* the steps of get_dir_from_git that run a git subprocess
GitSubprocesses ==
    {"rev-parse", "clone", "sparse-init", "ls-remote", "fetch", "checkout",
     "sparse-checkout"}

\* C15: the second of two identical resolutions, the first having returned
\* Ok, runs no git subprocess: no clone, ls-remote, fetch, checkout or
\* sparse-checkout
C15_SecondCallRunsNoGit ==
    \A k \in DOMAIN returned :
        (k > 1 /\ returned[k - 1].res.ok) =>
            Range(returned[k].calls) \cap GitSubprocesses = {}

\* the steps that clone the repo, and the steps that materialize a snapshot
CloneSteps == {"clone", "sparse-init", "write-repo-meta"}
SnapshotSteps == {"fetch", "copy", "checkout", "sparse-checkout", "remove-git", "write-meta"}

\* C16: a call that finds the repo clone runs no clone and leaves its
\* metadata file as it is; a call that finds the snapshot directory of its
\* (repo, commit, paths) runs none of fetch, copy, checkout, sparse-checkout,
\* .git removal and metadata writing and leaves the whole cache as it is,
\* and with no step failing it returns that directory
C16_CacheHitChangesNothing ==
    \A k \in DOMAIN returned :
        LET c == returned[k]
            hit == get_dir_from_git_run(c.before, input, "none")
        IN  /\ TargetDir \in DOMAIN c.before.clones =>
                  /\ Range(c.calls) \cap CloneSteps = {}
                  /\ TargetDir \in DOMAIN c.after.clones
                  /\ c.after.clones[TargetDir].meta = c.before.clones[TargetDir].meta
            /\ (IsSome(CommitShort) /\ CommitPath \in DOMAIN c.before.snaps) =>
                  /\ Range(c.calls) \cap SnapshotSteps = {}
                  /\ c.after = c.before
                  /\ hit.store = c.before
                  /\ hit.res.ok
                  /\ Unwrap(hit.res.val).resolve_root =
                         to_utf8_path(input.address.path, CommitPath)
                  /\ c.res.ok => c.res = hit.res

\* C16 witness: the second call found clone and snapshot, ran `git ls-remote`
\* only and returned Ok
C16_Witness ==
    /\ Len(returned) = 2
    /\ IsSome(CommitShort)
    /\ TargetDir \in DOMAIN returned[2].before.clones
    /\ CommitPath \in DOMAIN returned[2].before.snaps
    /\ returned[2].calls = <<"ls-remote">>
    /\ returned[2].res.ok

----------------------------------------------------------------------------
(* Claims about ls_remote *)

\* C17: when `git ls-remote origin <pattern>` succeeds and prints no line,
\* ls_remote returns Ok(pattern)
C17_NoLineGivesPattern ==
    (out.op = "ls_remote" /\ out.ran /\ input.remote = <<>>) =>
        out.res = LsOk(input.address.git_ref)

\* the refs `git ls-remote` printed, those of "refs/remotes" discarded
Refs == sha_refs_of(SelectSeq(input.remote, LAMBDA l : Len(l) = 2))

\* every line `git ls-remote` printed is a sha and a ref name
WellFormed == \A k \in DOMAIN input.remote : Len(input.remote[k]) = 2

\* exactly two refs, of different shas, exactly one of them peeled
TwoRefsOnePeeled ==
    /\ WellFormed
    /\ Len(Refs) = 2
    /\ Refs[1].sha # Refs[2].sha
    /\ ends_with_peel(Refs[1].tag) # ends_with_peel(Refs[2].tag)

\* the sha of the peeled one of two refs
PeeledSha == IF ends_with_peel(Refs[1].tag) THEN Refs[1].sha ELSE Refs[2].sha

\* C18: of exactly two refs with different shas, one of them ending in
\* "^{}", ls_remote returns the sha of the peeled one, whichever of the two
\* lines comes first
C18_PeeledRefChosen ==
    (out.op = "ls_remote" /\ out.ran /\ TwoRefsOnePeeled) =>
        out.res = LsOk(PeeledSha)

\* C18 witness: the tag came first and the peeled ref second, and ls_remote
\* returned the sha of the second
C18_Witness ==
    /\ out.op = "ls_remote" /\ out.ran
    /\ input.remote = << <<Sha("1"), TagRef>>, <<Sha("2"), PeeledRef>> >>
    /\ out.res = LsOk(Sha("2"))

\* the refs do not determine a commit: three or more refs not all of one
\* sha, or two refs of different shas neither of which is peeled
Ambiguous ==
    /\ WellFormed
    /\ \/ Len(Refs) >= 3 /\ \E k \in DOMAIN Refs : Refs[k].sha # Refs[1].sha
       \/ /\ Len(Refs) = 2
          /\ Refs[1].sha # Refs[2].sha
          /\ ~ends_with_peel(Refs[1].tag) /\ ~ends_with_peel(Refs[2].tag)

\* C19: on ambiguous refs ls_remote returns Err(GitError::Failed), and
\* get_dir_from_git returns an error having run `git ls-remote` once at most
\* and none of fetch, copy and checkout, and having created no snapshot
\* directory
C19_AmbiguousRefsFail ==
    Ambiguous =>
        /\ (out.op = "ls_remote" /\ out.ran) => out.res = LsErr("Failed")
        /\ out.op = "git" =>
              /\ out.res = GitErr
              /\ Cardinality({k \in DOMAIN out.calls : out.calls[k] = "ls-remote"}) <= 1
              /\ Range(out.calls) \cap SnapshotSteps = {}
              /\ store.snaps = NoStore.snaps

\* C19 witness: get_dir_from_git cloned the repo, got three refs of two
\* commits from `git ls-remote` and returned an error
C19_Witness ==
    /\ out.op = "git"
    /\ Ambiguous
    /\ Len(Refs) = 3
    /\ out.calls = <<"clone", "sparse-init", "write-repo-meta", "ls-remote">>
    /\ out.res = GitErr

----------------------------------------------------------------------------
(* Claims about the materialization of a snapshot *)

\* the steps of a materialization in their order
ClaimedOrder ==
    <<"fetch", "copy", "checkout", "sparse-checkout", "remove-git", "write-meta">>

\* the steps a call ran after `git ls-remote`
AfterLsRemote(calls) ==
    LET at == CHOOSE k \in DOMAIN calls : calls[k] = "ls-remote"
    IN  SubSeq(calls, at + 1, Len(calls))

\* C20: a call that misses the snapshot runs fetch, copy, checkout,
\* sparse-checkout set, .git removal and metadata write in this order, and
\* whenever a call returns Ok the snapshot directory exists and holds no
\* .git directory
C20_MaterializedInOrder ==
    \A k \in DOMAIN returned :
        LET c == returned[k]
        IN  /\ "fetch" \in Range(c.calls) =>
                  /\ AfterLsRemote(c.calls) = SubSeq(ClaimedOrder, 1, Len(AfterLsRemote(c.calls)))
                  /\ c.res.ok => AfterLsRemote(c.calls) = ClaimedOrder
            /\ c.res.ok =>
                  /\ CommitPath \in DOMAIN c.after.snaps
                  /\ ~c.after.snaps[CommitPath].dotgit

\* a snapshot on which every step of the materialization has been done
Complete(snap) ==
    /\ snap.copied
    /\ IsSome(snap.commit)
    /\ IsSome(snap.sparse)
    /\ ~snap.dotgit
    /\ snap.meta

\* C21: a snapshot directory that the existence check can see is fully
\* materialized, and no call returns as a cache hit a directory that an
\* earlier call left before its materialization was complete
C21_NoIncompleteCacheHit ==
    /\ \A p \in DOMAIN store.snaps : Complete(store.snaps[p])
    /\ \A k \in DOMAIN returned :
           LET c == returned[k]
           IN  (c.res.ok /\ CommitPath \in DOMAIN c.before.snaps) =>
                   Complete(c.before.snaps[CommitPath])

----------------------------------------------------------------------------
(* Claims about the resolved scope and the secrets *)

\* the commit ids an address may have resolved to
CommitIds == {"c1", "c2"}

\* C23: the hash of the resolved scope is the commit id the address resolved
\* to when require_hash is true, and "tidploy_default_hash" when it is false
\* or unset
C23_HashIsCommitOrSentinel ==
    Resolved =>
        LET hash == Unwrap(out.res.val).scope.hash
        IN  IF RequireHash THEN hash \in CommitIds ELSE hash = "tidploy_default_hash"

\* the path has a last segment (Utf8Path::file_name is Some)
HasFileName(path) == path # <<>> /\ path[Len(path)] # ".."

\* C24: create_resolve_state derives from the converged state the name, the
\* last segment of resolve_root, the sub "tidploy_root" and the state_root,
\* the state's state_root joined onto resolve_root; a resolve_root without a
\* last segment gives an error and no ResolveState
C24_ResolveStateDerived ==
    (out.op = "create_resolve_state" /\ IsSome(out.state)) =>
        LET st == Unwrap(out.state)
            root == st.resolve_root
        IN  /\ out.res.ok <=> HasFileName(root)
            /\ ~out.res.ok => out.res.val = None
            /\ out.res.ok =>
                  LET rs == Unwrap(out.res.val)
                  IN  /\ rs.name = root[Len(root)]
                      /\ rs.sub = "tidploy_root"
                      /\ rs.resolve_root = root
                      /\ rs.state_path = st.state_path
                      /\ SubSeq(rs.state_root, 1, Len(root)) = root
                      /\ SubSeq(rs.state_root, Len(root) + 1, Len(rs.state_root))
                             = st.state_root

\* C24 witness: the ResolveState of a relative resolve_root with a
\* state_root, named after the last segment
C24_Witness ==
    /\ out.op = "create_resolve_state"
    /\ out.res.ok
    /\ input.addr_in.resolve_root = Some(Str(FALSE, <<"b">>))
    /\ input.addr_in.state_root = Some(Str(FALSE, <<"s">>))
    /\ Unwrap(out.res.val).name = "b"
    /\ Unwrap(out.res.val).state_root = <<"home", "repo", "w", "b", "s">>

----------------------------------------------------------------------------
(* Claims about address construction *)

\* C26: the Address of a local AddressIn has an absolute resolve_root
\* unchanged, and a relative one (the unset, empty one too) joined onto the
\* current directory in the context Cwd and onto the root directory of the
\* Git repository that contains the current directory in the context Git
C26_LocalRootConstruction ==
    (/\ out.op = "from_addr_in"
     /\ out.res.ok
     /\ input.addr_in.kind = "local"
     /\ input.env.current_dir = Some(<<"home", "repo", "w">>)) =>
        LET resolve_root == UnwrapOr(input.addr_in.resolve_root, Str(FALSE, <<>>))
            base == IF input.infer_ctx = "Cwd" THEN Unwrap(input.env.current_dir)
                    ELSE RepoRootDir
        IN  Unwrap(out.res.val).root =
                LocalRoot(IF resolve_root.abs THEN resolve_root.comps
                          ELSE base \o SelectSeq(resolve_root.comps, LAMBDA c : c # "."))

----------------------------------------------------------------------------
(* Claims about redirects *)

\* the state section of the config that the pass of converge_state merges
\* when it reads the disk `disk`, if the traversal succeeds and finds one
MergedState(disk) ==
    LET config == traverse_configs(disk, to_utf8_path(state.state_root, state.resolve_root),
                                   state.state_path)
    IN  IF config.ok THEN config.val.state ELSE None

\* the Address of the address a config declares, a relative local path
\* joined onto root and an absolute one as it is
DeclaredAddress(value, root) ==
    IF value.kind = "git"
    THEN GitRoot(value.url, value.git_ref, UnwrapOr(value.target_path, Str(FALSE, <<>>)).comps)
    ELSE LocalRoot(IF value.path.abs THEN value.path.comps ELSE root \o value.path.comps)

\* C29: a pass of converge_state whose merged config leaves state_root and
\* state_path as they are, normalized, is the last pass; the state after a
\* pass carries the address of the merged config, a relative local path
\* joined onto the current resolve_root and an absolute one unchanged, or
\* else the address recorded before; and the address converge_address
\* resolves next is the one the state carries
C29_LastAddressFollowed ==
    [][(/\ (pc = "converge" /\ IsSome(MergedState(fs'))) =>
              (LET cfg == Unwrap(MergedState(fs'))
               IN  /\ (/\ Normalize(state'.state_root) = Normalize(state.state_root)
                       /\ Normalize(state'.state_path) = Normalize(state.state_path))
                          => pc' = "check"
                   /\ IsSome(cfg.address) =>
                          /\ IsSome(state'.address)
                          /\ Unwrap(state'.address).root =
                                 DeclaredAddress(Unwrap(cfg.address), state.resolve_root)
                   /\ ~IsSome(cfg.address) => state'.address = state.address)
        /\ (pc = "check" /\ pc' = "converge" /\ ~overflow') =>
              hops'[Len(hops')].addr = Unwrap(state.address))]_vars

\* C29 witness: the second pass of converge_state has merged a config that
\* declares an address, replacing the address the first pass recorded, and
\* converge_state has returned
C29_Witness ==
    /\ pc = "check"
    /\ i = 1
    /\ Len(hops) = 1
    /\ IsSome(state.address)
    /\ Cardinality(declared) = 2

\* the path a config gives as a string, or the empty path when it gives none
PathOrEmpty(o) == IF IsSome(o) THEN Unwrap(o).comps ELSE <<>>

\* C30: the address a state carries has the state_root and state_path of
\* the config address it was made from, empty when the config omits them,
\* and the state that resolving the address produces has that state_root
\* and state_path and no address: nothing of the state_root and state_path
\* in force before is carried over
C30_RedirectReplacesAddress ==
    [][(/\ (/\ pc = "converge"
            /\ IsSome(MergedState(fs'))
            /\ IsSome(Unwrap(MergedState(fs')).address)) =>
              (LET value == Unwrap(Unwrap(MergedState(fs')).address)
               IN  /\ Unwrap(state'.address).state_root = PathOrEmpty(value.state_root)
                   /\ Unwrap(state'.address).state_path = PathOrEmpty(value.state_path))
        /\ (pc = "check" /\ pc' = "converge") =>
              /\ state'.state_root = Unwrap(state.address).state_root
              /\ state'.state_path = Unwrap(state.address).state_path
              /\ state'.address = None)]_vars

\* C30 witness: converge_address was called with a state_path, a config
\* declared an address without one, and the state of the resolved address
\* has the empty state_path
C30_Witness ==
    /\ pc = "converge"
    /\ i = 0
    /\ Len(hops) = 2
    /\ addr_in.state_path = <<"a">>
    /\ hops[2].addr.state_path = <<>>
    /\ state.state_path = <<>>
    /\ state.address = None

----------------------------------------------------------------------------
(* Claims about invocations that run at once *)

\* the invocation has created the snapshot directory and has not returned
Materializing(inv) == inv.res = None /\ "copy" \in Range(inv.calls)

\* the invocation found the snapshot directory and returned it
ReturnedHit(inv) ==
    /\ inv.res = Some(OkState)
    /\ "copy" \notin Range(inv.calls)

\* C22: the snapshot directory an invocation is materializing is visible to
\* the existence check of every other invocation, and an invocation that
\* finds the directory returns it as its resolve_root whatever state it is
\* in: a partially written snapshot can be observed
C22_PartialSnapshotVisible ==
    \A p \in DOMAIN running :
        /\ Materializing(running[p]) => CommitPath \in DOMAIN store.snaps
        /\ (IsSome(running[p].res) /\ Unwrap(running[p].res).ok) =>
               /\ running[p].res = Some(OkState)
               /\ CommitPath \in DOMAIN store.snaps
        /\ running[p].todo = <<"check-snapshot">> =>
               (race_step(store, running[p]).inv.res = Some(OkState)
                    <=> CommitPath \in DOMAIN store.snaps)

\* C22 witness: one invocation has passed the existence check and returned
\* the snapshot directory while the other is still copying into it or
\* checking out in it
C22_Witness ==
    \E p, q \in DOMAIN running :
        /\ ReturnedHit(running[p])
        /\ Materializing(running[q])
        /\ Head(running[q].todo) \in {"copy-entries", "checkout"}
        /\ ~Complete(store.snaps[CommitPath])

----------------------------------------------------------------------------
(* Claims about the credential store *)

\* the scope the secret command resolved, and its key
SetScope == Unwrap(out.resolved).scope
SetKey == Unwrap(out.resolved).key

\* the hashes create_resolve_state may hand to resolve_scope
Hashes == CommitIds \cup {"todo_hash", "tidploy_default_hash"}

\* C25: after secret_command returned Ok(store_key) for key k, the store key
\* is '<name>::<sub>::<hash>:<k>' of the resolved scope and the credential
\* store holds the password under it in the scope's service; get_secret for
\* k returns that password under every scope of the same service, name and
\* sub whose require_hash is false or unset, whatever the hash it was
\* resolved with, its store key being '<name>::<sub>::tidploy_default_hash:<k>'
C25_SecretRoundTrip ==
    (pc = "set" /\ out.res.ok) =>
        /\ out.res.val = Some(<<SetScope.name, "::", SetScope.sub, "::", SetScope.hash,
                                ":", SetKey>>)
        /\ <<SetScope.service, Unwrap(out.res.val)>> \in DOMAIN keyring
        /\ keyring[<<SetScope.service, Unwrap(out.res.val)>>] = out.password
        /\ \A require_hash \in {None, Some(FALSE)}, hash \in Hashes :
              LET scope == resolve_scope([service      |-> Some(SetScope.service),
                                          name         |-> Some(SetScope.name),
                                          sub          |-> Some(SetScope.sub),
                                          require_hash |-> require_hash],
                                         "other", "other", hash)
              IN  /\ key_from_scope(scope, SetKey, TRUE)
                        = <<SetScope.name, "::", SetScope.sub, "::",
                            "tidploy_default_hash", ":", SetKey>>
                  /\ get_secret(keyring, scope, SetKey, FALSE)
                        = [ok |-> TRUE, val |-> Some(out.password), err |-> <<>>]

\* C25 witness: a secret was set under a scope that requires the hash, over
\* an older entry of the same key
C25_Witness ==
    /\ pc = "set"
    /\ out.res.ok
    /\ SetScope.hash # "tidploy_default_hash"
    /\ SetScope.name = "r"
    /\ SetKey = "k1"
    /\ out.password # "pre"
    /\ Cardinality(DOMAIN keyring) = 3

\* the requested variables whose store key has no entry
Missing ==
    LET scope == Unwrap(out.resolved).scope
    IN  {k \in DOMAIN Unwrap(out.resolved).envs :
            <<scope.service, key_from_scope(scope, Unwrap(out.resolved).envs[k].key, TRUE)>>
                \notin DOMAIN keyring}

\* C28: when run_unit_input is reached and the credential store has no entry
\* for the store key of a requested variable, get_secret returns
\* NoPassword(store_key) for it, there is no env map and the entrypoint is
\* not spawned; a spawned entrypoint has the secret of every requested
\* variable's env_name, the last variable of an env_name giving its value
C28_SecretsAllOrNothing ==
    (pc = "ran" /\ IsSome(out.resolved)) =>
        LET scope == Unwrap(out.resolved).scope
            requested == Unwrap(out.resolved).envs
        IN  /\ \A k \in Missing :
                  get_secret(keyring, scope, requested[k].key, FALSE)
                      = [ok |-> FALSE, val |-> None,
                         err |-> <<"NoPassword", key_from_scope(scope, requested[k].key, TRUE)>>]
            /\ Missing # {} =>
                  ~out.res.ok /\ out.res.envs = None /\ ~out.res.spawned
            /\ out.res.spawned =>
                  /\ out.res.ok /\ IsSome(out.res.envs)
                  /\ DOMAIN Unwrap(out.res.envs) = {requested[k].env_name : k \in DOMAIN requested}
                  /\ \A k \in DOMAIN requested :
                        (\A j \in DOMAIN requested :
                            requested[j].env_name = requested[k].env_name => j <= k)
                        => Unwrap(out.res.envs)[requested[k].env_name]
                              = keyring[<<scope.service,
                                          key_from_scope(scope, requested[k].key, TRUE)>>]

\* C28 witness: of two requested variables the store holds the first only,
\* the store answers, and nothing was spawned
C28_Witness ==
    /\ pc = "ran"
    /\ IsSome(out.resolved)
    /\ ~out.locked
    /\ Len(Unwrap(out.resolved).envs) >= 2
    /\ Missing # {}
    /\ 1 \notin Missing
    /\ ~out.res.spawned

\* a state where an entrypoint was spawned with secrets
SpawnedWithSecrets ==
    /\ pc = "ran"
    /\ out.res.spawned
    /\ Len(Unwrap(out.resolved).envs) >= 2

----------------------------------------------------------------------------
(* Claims about run_entrypoint *)

\* C27: when run_entrypoint has returned, the child has exited, both pipes
\* are drained, and out holds the bytes the child wrote to stdout and to
\* stderr in the order the child wrote them across both streams
C27_OutputInWriteOrder ==
    child.at = "returned" =>
        /\ child.exited
        /\ child.pipe_out = <<>> /\ child.pipe_err = <<>>
        /\ child.out = child.wrote

\* run_entrypoint returns only after the exit, with both pipes drained and
\* every byte captured once, each stream in its own order
ReturnedDrained ==
    child.at = "returned" =>
        /\ child.exited
        /\ child.pipe_out = <<>> /\ child.pipe_err = <<>>
        /\ Len(child.out) = Len(child.wrote)
        /\ Range(child.out) = Range(child.wrote)
        /\ \A j, k \in DOMAIN child.out :
              (j < k /\ child.prog[child.out[j]] = child.prog[child.out[k]])
                  => child.out[j] < child.out[k]

====
